---------------------------- MODULE Spec2Model ----------------------------
(***************************************************************************)
(* A model of the HKSA tabling scheduler (scheduler_core.py).              *)
(*                                                                         *)
(* People are identified by their unique name (parse_file keys the roster  *)
(* by name).  A member record holds the fields of the Member dataclass     *)
(* that never change during a solve; the one mutable field,                *)
(* Member.assigned_shifts, is the variable assigned_shifts, a function     *)
(* from roster names to sequences of (day, time_idx) cells.  A shift is a  *)
(* record [day, time_idx, locked, assigned_members] whose assigned_members *)
(* is the ordered list of occupant names.                                  *)
(*                                                                         *)
(* Scheduler.solve() is one behaviour: SolveInit is lines 82-127, every    *)
(* invocation of _backtrack is one BacktrackEnter step, the body of the    *)
(* two for-loops is LoopAssign (assign, then call) and ReturnToLoop        *)
(* (revert), and Finalize is lines 134-140.  The recursion is an explicit  *)
(* stack.                                                                  *)
(***************************************************************************)
EXTENDS Integers, Sequences, FiniteSets, TLC

\* ------------------------------------------------------------------------
\* Program constants
\* ------------------------------------------------------------------------

ALL_DAYS == <<"Monday", "Tuesday", "Wednesday", "Thursday", "Friday">>

\* The values of TIME_SLOTS, in the dict's insertion order.
TIME_SLOTS == <<0, 1, 2, 3>>

\* if self.attempts > 1000000: raise StopIteration
ATTEMPT_BUDGET == 1000000

\* if len(self.top_schedules) >= 51: raise StopIteration
SOLUTION_CAP == 51

\* The labels of TIME_SLOTS, in the same order.
TIME_LABELS == <<"10:30-11:30", "11:30-12:30", "12:30-1:30", "1:30-2:30">>

\* find_best_slots_for_pair: score = 100
BASE_SCORE == 100

\* find_best_slots_for_pair: score += 10 for each of the two who prefers the day
PREFERRED_BONUS == 10

\* find_best_slots_for_pair: score += 5 for a slot the pair may hold
COVERAGE_BONUS == 5

\* pair_score weights
MUST_WEIGHT == 1000

PREF_WEIGHT == 5

\* ------------------------------------------------------------------------
\* Bounds of the model
\* ------------------------------------------------------------------------

\* The largest scaled-down attempt budget: a run's budget is ATTEMPT_BUDGET or
\* one of 1..ScaledBudget, so that the budget halt of _backtrack happens on
\* small grids, at each of the first calls.
ScaledBudget == 3

\* The most forbidden pairs a constraint set of the enumerated inputs holds.
MaxForbidden == 1

\* The most locked shifts a pre-filled grid of the enumerated inputs holds.
MaxLocked == 2

\* ------------------------------------------------------------------------
\* Sequence helpers
\* ------------------------------------------------------------------------

Range(s) == {s[i] : i \in 1..Len(s)}

DaySet == Range(ALL_DAYS)

Cell(shift) == <<shift.day, shift.time_idx>>

RECURSIVE SumSeq(_)
SumSeq(s) == IF s = <<>> THEN 0 ELSE Head(s) + SumSeq(Tail(s))

\* The indices 1..Len(keys) ordered as list.sort(key=...) orders the elements:
\* ascending by key, equal keys in their original order (the sort is stable).
\* The keys are enumerated first (keys \o <<>> is keys, element by element), as
\* the sort calls the key function once for every element.
SortedIndexAsc(keys) ==
    LET n == Len(keys)
        key == keys \o <<>>
        rank(i) == Cardinality({j \in 1..n : key[j] < key[i] \/ (key[j] = key[i] /\ j < i)}) + 1
    IN  [k \in 1..n |-> CHOOSE i \in 1..n : rank(i) = k] \o <<>>

\* The same for list.sort(key=..., reverse=True): descending by key, equal
\* keys still in their original order.
SortedIndexDesc(keys) ==
    LET n == Len(keys)
        key == keys \o <<>>
        rank(i) == Cardinality({j \in 1..n : key[j] > key[i] \/ (key[j] = key[i] /\ j < i)}) + 1
    IN  [k \in 1..n |-> CHOOSE i \in 1..n : rank(i) = k] \o <<>>

Permute(s, idx) == [k \in 1..Len(s) |-> s[idx[k]]]

\* itertools.combinations(s, 2): the pairs <<s[i], s[j]>>, i < j, in
\* lexicographic order of (i, j), as an enumerated sequence.
Combinations2(s) ==
    LET n == Len(s)
        P == {ij \in (1..n) \X (1..n) : ij[1] < ij[2]}
        before(a, b) == a[1] < b[1] \/ (a[1] = b[1] /\ a[2] < b[2])
        rank(a) == Cardinality({b \in P : before(b, a)}) + 1
        at(k) == CHOOSE a \in P : rank(a) = k
    IN  [k \in 1..Cardinality(P) |-> <<s[at(k)[1]], s[at(k)[2]]>>] \o <<>>


\* ------------------------------------------------------------------------
\* State
\* ------------------------------------------------------------------------

VARIABLES
    members,           \* Scheduler.members: the roster, a sequence of member records
    forbidden_pairs,   \* Scheduler.forbidden_pairs: a sequence of name pairs
    must_schedule,     \* Scheduler.must_schedule: a sequence of names
    never_schedule,    \* Scheduler.never_schedule: a sequence of names
    attempt_limit,     \* the attempt budget of this run (ATTEMPT_BUDGET or the scaled one)
    pre_filled_grid,   \* the grid as it was handed to solve(), kept for comparison
    schedule_grid,     \* Scheduler.schedule_grid: the sequence of shifts
    assigned_shifts,   \* Member.assigned_shifts of every roster member
    attempts,          \* Scheduler.attempts
    best_grid_state,   \* Scheduler.best_grid_state
    max_filled_count,  \* Scheduler.max_filled_count
    top_schedules,     \* Scheduler.top_schedules
    pc,                \* where solve() stands
    shift_index,       \* the argument of the pending _backtrack call
    stack,             \* the active for-loops of _backtrack, innermost last
    result,            \* what solve() returned; NoResult before it returns
    visited,           \* the grid snapshots _backtrack has examined, in order
    previous_state,    \* the reference state a caller hands to Scheduler(...): <<>> or <<state>>
    state_dict,        \* the argument of a restore_state call: <<>> or <<state>>
    before,            \* grid and bookkeeping just before a capture or restore: <<>> or <<record>>
    once,              \* grid and bookkeeping after the first restore_state: <<>> or <<record>>
    call,              \* a call of a function outside the Scheduler: its name and arguments
    ret                \* what that call returned or stored: <<>> or <<value>>

vars == <<members, forbidden_pairs, must_schedule, never_schedule, attempt_limit,
          pre_filled_grid, schedule_grid, assigned_shifts, attempts, best_grid_state,
          max_filled_count, top_schedules, pc, shift_index, stack, result, visited,
          previous_state, state_dict, before, once, call, ret>>

inputs == <<members, forbidden_pairs, must_schedule, never_schedule, attempt_limit,
            pre_filled_grid>>

\* What a run of solve() neither reads nor writes.
outside == <<previous_state, state_dict, before, once, call, ret>>

NoResult == "none"

NoCall == [op |-> "none"]

\* ------------------------------------------------------------------------
\* Roster model
\* ------------------------------------------------------------------------

RosterNames == {members[i].name : i \in 1..Len(members)}

\* next((x for x in self.members if x.name == name), None), for a name of the roster
MemberNamed(name) == members[CHOOSE i \in 1..Len(members) : members[i].name = name]

\* An availability test that asks the avoid flags before the overrides.
is_available_flags_first(m, day, time_idx) ==
    /\ ~(m.avoid_opening /\ time_idx = 0)
    /\ ~(m.avoid_closing /\ time_idx = 3)
    /\ IF <<day, time_idx>> \in DOMAIN m.time_overrides
       THEN m.time_overrides[<<day, time_idx>>]
       ELSE day \in DOMAIN m.availability /\ time_idx \in m.availability[day]

\* Member.is_available: an override for the cell decides alone; otherwise the
\* base availability and the two avoid flags.
is_available(m, day, time_idx) ==
    IF <<day, time_idx>> \in DOMAIN m.time_overrides
    THEN m.time_overrides[<<day, time_idx>>]
    ELSE /\ day \in DOMAIN m.availability
         /\ time_idx \in m.availability[day]
         /\ ~(m.avoid_opening /\ time_idx = 0)
         /\ ~(m.avoid_closing /\ time_idx = 3)

needs_male(shift) == shift.time_idx = 0 \/ shift.time_idx = 3

\* A roster filter that forgets never_schedule.
working_members_unfiltered == members

\* Scheduler.__init__: the roster without the never_schedule names
working_members == SelectSeq(members, LAMBDA m : m.name \notin Range(never_schedule))

\* A grid builder that gives every shift of a day the first time slot.
InitializeGridOneSlot(active_days) ==
    [k \in 1..(Len(active_days) * Len(TIME_SLOTS)) |->
        [day |-> active_days[((k - 1) \div Len(TIME_SLOTS)) + 1],
         time_idx |-> TIME_SLOTS[1],
         locked |-> FALSE,
         assigned_members |-> <<>>]]

\* Scheduler._initialize_grid
InitializeGrid(active_days) ==
    [k \in 1..(Len(active_days) * Len(TIME_SLOTS)) |->
        [day |-> active_days[((k - 1) \div Len(TIME_SLOTS)) + 1],
         time_idx |-> TIME_SLOTS[((k - 1) % Len(TIME_SLOTS)) + 1],
         locked |-> FALSE,
         assigned_members |-> <<>>]]

\* ------------------------------------------------------------------------
\* Snapshot and restore
\* ------------------------------------------------------------------------

\* Scheduler._capture_state: cell -> occupant names.  A later shift with the
\* same cell overwrites an earlier one.
CaptureState(grid) ==
    [c \in {Cell(grid[i]) : i \in 1..Len(grid)} |->
        grid[CHOOSE i \in 1..Len(grid) :
                /\ Cell(grid[i]) = c
                /\ \A j \in (i + 1)..Len(grid) : Cell(grid[j]) # c].assigned_members]

\* A lookup that falls back on the occupants the shift has.
SavedNamesOrCurrent(state, shift) ==
    IF Cell(shift) \in DOMAIN state THEN state[Cell(shift)] ELSE shift.assigned_members

\* state_dict.get((shift.day, shift.time_idx), [])
SavedNames(state, shift) == IF Cell(shift) \in DOMAIN state THEN state[Cell(shift)] ELSE <<>>

\* A lookup that takes every saved name for a member.
ResolvableUnfiltered(names) == names

\* The names of a list that resolve to a roster member, in order.
Resolvable(names) == SelectSeq(names, LAMBDA n : n \in RosterNames)

\* mem.assigned_shifts.append(cell) for every resolvable name of names, in order
RECURSIVE AppendCell(_, _, _)
AppendCell(asg, names, cell) ==
    IF names = <<>> THEN asg
    ELSE LET n == Head(names)
             nxt == IF n \in DOMAIN asg THEN [asg EXCEPT ![n] = Append(@, cell)] ELSE asg
         IN  AppendCell(nxt, Tail(names), cell)

\* A restore that keeps the lists it should clear.
KeptAssignments == assigned_shifts

\* for m in self.members: m.assigned_shifts = []
NoAssignments == [n \in RosterNames |-> <<>>]

\* A restore that adds the saved names to the occupants a shift has.
RestoredGridAppended(grid, state) ==
    [i \in 1..Len(grid) |->
        [grid[i] EXCEPT !.assigned_members = @ \o SelectSeq(SavedNames(state, grid[i]),
                                                            LAMBDA n : n \in RosterNames)]]

\* Scheduler.restore_state, the shifts: every shift gets the resolvable names
\* saved for its cell.
RestoredGrid(grid, state) ==
    [i \in 1..Len(grid) |->
        [grid[i] EXCEPT !.assigned_members = Resolvable(SavedNames(state, grid[i]))]]

\* Scheduler.restore_state, the bookkeeping: cleared, then one entry per
\* restored occupant, shift by shift in grid order.
RECURSIVE RestoredAssigned(_, _, _)
RestoredAssigned(grid, state, asg) ==
    IF grid = <<>> THEN asg
    ELSE RestoredAssigned(Tail(grid), state,
                          AppendCell(asg, SavedNames(state, Head(grid)), Cell(Head(grid))))

\* ------------------------------------------------------------------------
\* Candidate enumeration
\* ------------------------------------------------------------------------

\* A forbidden-pair test that knows a pair in its listed order only.
IsPairForbiddenOneWay(p1_name, p2_name) ==
    \E i \in 1..Len(forbidden_pairs) :
        p1_name = forbidden_pairs[i][1] /\ p2_name = forbidden_pairs[i][2]

\* Scheduler._is_pair_forbidden
IsPairForbidden(p1_name, p2_name) ==
    \E i \in 1..Len(forbidden_pairs) :
        LET f1 == forbidden_pairs[i][1]
            f2 == forbidden_pairs[i][2]
        IN  (p1_name = f1 /\ p2_name = f2) \/ (p1_name = f2 /\ p2_name = f1)

\* A male-coverage test that lets every pair through.
MaleCoveredUnchecked(shift, g1, g2) == TRUE

\* The male-coverage test of _get_valid_pairs and _get_valid_partners.
MaleCovered(shift, g1, g2) == needs_male(shift) => (g1 = "Male" \/ g2 = "Male")

\* A pair enumeration that does not ask whether a person is free for the shift.
GetValidPairsAnyCell(shift, asg) ==
    LET available_people == SelectSeq(working_members, LAMBDA m : Len(asg[m.name]) = 0)
        combos == Combinations2(available_people)
    IN  SelectSeq([k \in 1..Len(combos) |-> <<combos[k][1].name, combos[k][2].name>>],
                  LAMBDA pr : /\ ~IsPairForbidden(pr[1], pr[2])
                              /\ MaleCovered(shift, MemberNamed(pr[1]).gender,
                                             MemberNamed(pr[2]).gender))

\* Scheduler._get_valid_pairs, under the bookkeeping asg: pairs of names
GetValidPairs(shift, asg) ==
    LET available_people ==
            SelectSeq(working_members,
                      LAMBDA m : is_available(m, shift.day, shift.time_idx) /\ Len(asg[m.name]) = 0)
        combos == Combinations2(available_people)
    IN  SelectSeq([k \in 1..Len(combos) |-> <<combos[k][1].name, combos[k][2].name>>],
                  LAMBDA pr : /\ ~IsPairForbidden(pr[1], pr[2])
                              /\ MaleCovered(shift, MemberNamed(pr[1]).gender,
                                             MemberNamed(pr[2]).gender))

\* A partner enumeration that does not ask whether a person holds a shift.
GetValidPartnersAnyLoad(shift, current_name, asg) ==
    LET available_people ==
            SelectSeq(working_members,
                      LAMBDA m : /\ is_available(m, shift.day, shift.time_idx)
                                 /\ m.name # current_name)
        valid_partners ==
            SelectSeq(available_people,
                      LAMBDA p : /\ ~IsPairForbidden(current_name, p.name)
                                 /\ MaleCovered(shift, MemberNamed(current_name).gender, p.gender))
        keys == [k \in 1..Len(valid_partners) |->
                    IF shift.day \in valid_partners[k].preferred_days THEN 1 ELSE 0]
        sorted == Permute(valid_partners, SortedIndexDesc(keys))
    IN  [k \in 1..Len(sorted) |-> <<sorted[k].name>>]

\* Scheduler._get_valid_partners, under the bookkeeping asg: one-name lists
GetValidPartners(shift, current_name, asg) ==
    LET available_people ==
            SelectSeq(working_members,
                      LAMBDA m : /\ is_available(m, shift.day, shift.time_idx)
                                 /\ Len(asg[m.name]) = 0
                                 /\ m.name # current_name)
        valid_partners ==
            SelectSeq(available_people,
                      LAMBDA p : /\ ~IsPairForbidden(current_name, p.name)
                                 /\ MaleCovered(shift, MemberNamed(current_name).gender, p.gender))
        keys == [k \in 1..Len(valid_partners) |->
                    IF shift.day \in valid_partners[k].preferred_days THEN 1 ELSE 0]
        sorted == Permute(valid_partners, SortedIndexDesc(keys))
    IN  [k \in 1..Len(sorted) |-> <<sorted[k].name>>]

\* pair_score of _backtrack
PairScore(pr, day) ==
      (IF pr[1] \in Range(must_schedule) THEN MUST_WEIGHT ELSE 0)
    + (IF pr[2] \in Range(must_schedule) THEN MUST_WEIGHT ELSE 0)
    + (IF day \in MemberNamed(pr[1]).preferred_days THEN PREF_WEIGHT ELSE 0)
    + (IF day \in MemberNamed(pr[2]).preferred_days THEN PREF_WEIGHT ELSE 0)

\* potential_pairs.sort(key=pair_score, reverse=True)
SortedPairs(shift, asg) ==
    LET pairs == GetValidPairs(shift, asg)
    IN  Permute(pairs, SortedIndexDesc([k \in 1..Len(pairs) |-> PairScore(pairs[k], shift.day)]))

\* get_difficulty of solve()
Difficulty(shift, asg) ==
    IF Len(shift.assigned_members) = 1
    THEN Len(GetValidPartners(shift, shift.assigned_members[1], asg))
    ELSE Len(GetValidPairs(shift, asg))


\* ------------------------------------------------------------------------
\* solve(): initialisation and shift ordering (lines 82-127)
\* ------------------------------------------------------------------------

\* A lock restoration that empties the locked shifts with the others.
LockRestoredGridEmptied(grid) ==
    [i \in 1..Len(grid) |-> [grid[i] EXCEPT !.assigned_members = <<>>]]

\* "Restore locks", the shifts: a locked shift keeps its occupants that
\* resolve to a roster member, an unlocked shift is emptied.
LockRestoredGrid(grid) ==
    [i \in 1..Len(grid) |->
        [grid[i] EXCEPT !.assigned_members =
            IF grid[i].locked THEN Resolvable(grid[i].assigned_members) ELSE <<>>]]

\* "Restore locks", the bookkeeping: one entry per occupant of a locked shift.
RECURSIVE LockRestoredAssigned(_, _)
LockRestoredAssigned(grid, asg) ==
    IF grid = <<>> THEN asg
    ELSE LockRestoredAssigned(Tail(grid),
             IF Head(grid).locked
             THEN AppendCell(asg, Head(grid).assigned_members, Cell(Head(grid)))
             ELSE asg)

FullyLocked(grid) == SelectSeq(grid, LAMBDA s : s.locked /\ Len(s.assigned_members) >= 2)

PartiallyLocked(grid) == SelectSeq(grid, LAMBDA s : s.locked /\ ~(Len(s.assigned_members) >= 2))

Unlocked(grid) == SelectSeq(grid, LAMBDA s : ~s.locked)

\* An ordering that leaves the shifts to fill in their grid order.
OrderedGridUnsorted(grid, asg) == FullyLocked(grid) \o PartiallyLocked(grid) \o Unlocked(grid)

\* An ordering that takes the shifts with the most candidates first.
OrderedGridEasiestFirst(grid, asg) ==
    LET processable == PartiallyLocked(grid) \o Unlocked(grid)
        keys == [k \in 1..Len(processable) |-> Difficulty(processable[k], asg)]
    IN  FullyLocked(grid) \o Permute(processable, SortedIndexDesc(keys))

\* self.schedule_grid = fully_locked + [x[1] for x in diff_list], diff_list
\* sorted by difficulty (stable)
OrderedGrid(grid, asg) ==
    LET processable == PartiallyLocked(grid) \o Unlocked(grid)
        keys == [k \in 1..Len(processable) |-> Difficulty(processable[k], asg)]
    IN  FullyLocked(grid) \o Permute(processable, SortedIndexAsc(keys))

SolveInit ==
    /\ pc = "solve"
    /\ LET asg1 == LockRestoredAssigned(schedule_grid, NoAssignments)
           grid1 == LockRestoredGrid(schedule_grid)
       IN  /\ assigned_shifts' = asg1
           /\ schedule_grid' = OrderedGrid(grid1, asg1)
           /\ shift_index' = Len(FullyLocked(grid1)) + 1
    /\ attempts' = 0
    /\ max_filled_count' = -1
    /\ best_grid_state' = <<>>
    /\ top_schedules' = <<>>
    /\ pc' = "backtrack"
    /\ UNCHANGED <<inputs, outside, stack, result, visited>>

\* ------------------------------------------------------------------------
\* _backtrack (lines 142-224)
\* ------------------------------------------------------------------------

\* A count that takes a shift with one occupant for a filled one.
FilledCountOccupied(grid) == Cardinality({i \in 1..Len(grid) : Len(grid[i].assigned_members) >= 1})

\* sum(1 for s in self.schedule_grid if len(s.assigned_members) == 2)
FilledCount(grid) == Cardinality({i \in 1..Len(grid) : Len(grid[i].assigned_members) = 2})

\* The names occupying some shift of the grid.
AssignedNames(grid) == UNION {Range(grid[i].assigned_members) : i \in 1..Len(grid)}

\* A must-schedule test that accepts every leaf.
MustSatisfiedUnchecked(grid) == TRUE

\* The must-schedule test of a fully occupied leaf (lines 154-161)
MustSatisfied(grid) == \A k \in 1..Len(must_schedule) : must_schedule[k] \in AssignedNames(grid)

\* The score of a fully occupied leaf (lines 163-166): 5 per occupant whose
\* shift is on one of the occupant's preferred days.
SolutionScore(grid) ==
    SumSeq([i \in 1..Len(grid) |->
        SumSeq([k \in 1..Len(grid[i].assigned_members) |->
            IF grid[i].day \in MemberNamed(grid[i].assigned_members[k]).preferred_days
            THEN PREF_WEIGHT ELSE 0])])

\* A cap test that lets one alternative too many through.
CapReachedLate(n) == n > SOLUTION_CAP

\* Whether the number of recorded alternatives ends the search (line 174)
CapReached(n) == n >= SOLUTION_CAP

\* A best-so-far test that also replaces the best on a tie.
IsNewBestOrTie(count, best) == count >= best

\* Whether the new fill count replaces the best one (line 149)
IsNewBest(count, best) == count > best

\* No except clause: StopIteration leaves solve().
StopIterationUncaught == "uncaught"

\* Where control goes when StopIteration leaves _backtrack: the except clause
\* of solve() swallows it and solve() goes on to its finalisation.
StopIterationHandler == "finalize"

BacktrackEnter ==
    /\ pc = "backtrack"
    /\ attempts' = attempts + 1
    /\ IF attempts + 1 > attempt_limit
       THEN /\ pc' = "stop_iteration"
            /\ UNCHANGED <<inputs, outside, schedule_grid, assigned_shifts, best_grid_state,
                           max_filled_count, top_schedules, shift_index, stack, result, visited>>
       ELSE LET grid == schedule_grid
                current_filled_count == FilledCount(grid)
                current_shift == grid[shift_index]
            IN  /\ visited' = Append(visited, CaptureState(grid))
                /\ IF IsNewBest(current_filled_count, max_filled_count)
                   THEN /\ max_filled_count' = current_filled_count
                        /\ best_grid_state' = CaptureState(grid)
                   ELSE UNCHANGED <<max_filled_count, best_grid_state>>
                /\ IF current_filled_count = Len(grid)
                   THEN IF ~MustSatisfied(grid)
                        THEN /\ pc' = "return"
                             /\ UNCHANGED <<top_schedules, shift_index, stack>>
                        ELSE /\ top_schedules' =
                                    Append(top_schedules,
                                           [state |-> CaptureState(grid),
                                            score |-> SolutionScore(grid),
                                            nth |-> Len(top_schedules) + 1])
                             /\ pc' = IF CapReached(Len(top_schedules) + 1)
                                      THEN "stop_iteration" ELSE "return"
                             /\ UNCHANGED <<shift_index, stack>>
                   ELSE IF shift_index > Len(grid)
                   THEN /\ pc' = "return"
                        /\ UNCHANGED <<top_schedules, shift_index, stack>>
                   ELSE IF current_shift.locked /\ Len(current_shift.assigned_members) >= 2
                   THEN /\ shift_index' = shift_index + 1
                        /\ pc' = "backtrack"
                        /\ UNCHANGED <<top_schedules, stack>>
                   ELSE /\ stack' = Append(stack,
                               [idx |-> shift_index,
                                cands |-> IF Len(current_shift.assigned_members) = 1
                                          THEN GetValidPartners(current_shift,
                                                                current_shift.assigned_members[1],
                                                                assigned_shifts)
                                          ELSE SortedPairs(current_shift, assigned_shifts),
                                pos |-> 1])
                        /\ pc' = "loop"
                        /\ UNCHANGED <<top_schedules, shift_index>>
                /\ UNCHANGED <<inputs, outside, schedule_grid, assigned_shifts, result>>

TopFrame == stack[Len(stack)]

\* A placement that puts the candidate in the place of whoever is there.
PlacedOverwriting(occupants, cand) == cand

\* The occupants of the frame's shift once candidate cand is placed: a partner
\* is appended to the one occupant, a pair replaces the list.
Placed(occupants, cand) == IF Len(cand) = 1 THEN occupants \o cand ELSE cand

\* The occupants once the candidate is taken back: pop() for a partner, [] for
\* a pair.
Reverted(occupants, cand) ==
    IF Len(cand) = 1 THEN SubSeq(occupants, 1, Len(occupants) - 1) ELSE <<>>

\* A revert that leaves the lists as they are.
PopCellSkipped(asg, names) == asg

\* p.assigned_shifts.pop() for every member of the candidate
RECURSIVE PopCell(_, _)
PopCell(asg, names) ==
    IF names = <<>> THEN asg
    ELSE PopCell([asg EXCEPT ![Head(names)] = SubSeq(@, 1, Len(@) - 1)], Tail(names))

\* One iteration of the for-loop, up to its recursive call: place the next
\* candidate and call _backtrack(shift_index + 1).
LoopAssign ==
    /\ pc = "loop"
    /\ TopFrame.pos <= Len(TopFrame.cands)
    /\ LET f == TopFrame
           cand == f.cands[f.pos]
           shift == schedule_grid[f.idx]
       IN  /\ schedule_grid' = [schedule_grid EXCEPT ![f.idx].assigned_members = Placed(@, cand)]
           /\ assigned_shifts' = AppendCell(assigned_shifts, cand, Cell(shift))
           /\ shift_index' = f.idx + 1
    /\ pc' = "backtrack"
    /\ UNCHANGED <<inputs, outside, attempts, best_grid_state, max_filled_count, top_schedules,
                   stack, result, visited>>

\* The for-loop is exhausted: return False.
LoopExit ==
    /\ pc = "loop"
    /\ TopFrame.pos > Len(TopFrame.cands)
    /\ stack' = SubSeq(stack, 1, Len(stack) - 1)
    /\ pc' = "return"
    /\ UNCHANGED <<inputs, outside, schedule_grid, assigned_shifts, attempts, best_grid_state,
                   max_filled_count, top_schedules, shift_index, result, visited>>

\* A call returned into the for-loop that made it: take the candidate back and
\* go on with the next one.
ReturnToLoop ==
    /\ pc = "return"
    /\ stack # <<>>
    /\ LET f == TopFrame
           cand == f.cands[f.pos]
       IN  /\ schedule_grid' = [schedule_grid EXCEPT ![f.idx].assigned_members = Reverted(@, cand)]
           /\ assigned_shifts' = PopCell(assigned_shifts, cand)
           /\ stack' = [stack EXCEPT ![Len(stack)].pos = f.pos + 1]
    /\ pc' = "loop"
    /\ UNCHANGED <<inputs, outside, attempts, best_grid_state, max_filled_count, top_schedules,
                   shift_index, result, visited>>

\* The outermost call returned to solve().
ReturnToSolve ==
    /\ pc = "return"
    /\ stack = <<>>
    /\ pc' = "finalize"
    /\ UNCHANGED <<inputs, outside, schedule_grid, assigned_shifts, attempts, best_grid_state,
                   max_filled_count, top_schedules, shift_index, stack, result, visited>>

\* StopIteration unwinds every active call without running its reverts.
CatchStopIteration ==
    /\ pc = "stop_iteration"
    /\ stack' = <<>>
    /\ pc' = StopIterationHandler
    /\ UNCHANGED <<inputs, outside, schedule_grid, assigned_shifts, attempts, best_grid_state,
                   max_filled_count, top_schedules, shift_index, result, visited>>

\* ------------------------------------------------------------------------
\* solve(): finalisation (lines 134-140)
\* ------------------------------------------------------------------------

\* A descending sort made of an ascending sort and a reversal: equal scores
\* come out in reverse discovery order.
SortTopSchedulesReversed(ts) ==
    LET asc == Permute(ts, SortedIndexAsc([k \in 1..Len(ts) |-> ts[k].score]))
    IN  [k \in 1..Len(ts) |-> asc[Len(ts) + 1 - k]]

\* self.top_schedules.sort(key=lambda x: x['score'], reverse=True)
SortTopSchedules(ts) == Permute(ts, SortedIndexDesc([k \in 1..Len(ts) |-> ts[k].score]))

\* The snapshot solve() restores: the top alternative, else the best partial.
FinalState(ts) == IF ts # <<>> THEN SortTopSchedules(ts)[1].state ELSE best_grid_state

Finalize ==
    /\ pc = "finalize"
    /\ top_schedules' = SortTopSchedules(top_schedules)
    /\ schedule_grid' = RestoredGrid(schedule_grid, FinalState(top_schedules))
    /\ assigned_shifts' = RestoredAssigned(schedule_grid, FinalState(top_schedules), NoAssignments)
    /\ result' = Len(top_schedules)
    /\ pc' = "done"
    /\ UNCHANGED <<inputs, outside, attempts, best_grid_state, max_filled_count, shift_index,
                   stack, visited>>


\* ------------------------------------------------------------------------
\* The inputs of a run
\* ------------------------------------------------------------------------

Everywhere == [d \in DaySet |-> {0, 1, 2, 3}]

Nowhere == [d \in DaySet |-> {}]

NoOverrides == <<>>

Person(name, gender, availability, avoid_opening, avoid_closing, preferred_days, time_overrides) ==
    [name |-> name, gender |-> gender, availability |-> availability,
     avoid_opening |-> avoid_opening, avoid_closing |-> avoid_closing,
     preferred_days |-> preferred_days, time_overrides |-> time_overrides]

Plain(name, gender) == Person(name, gender, Everywhere, FALSE, FALSE, {}, NoOverrides)

\* The roster of the lock scenarios: two men, two women, all free everywhere.
PlainRoster == <<Plain("A", "Male"), Plain("B", "Female"), Plain("C", "Male"), Plain("D", "Female")>>

\* Rosters that differ in gender, availability, avoid flags, overrides and
\* preferred days.
VariedRosters ==
    {<<a, Person("B", "Female", Everywhere, FALSE, TRUE, {"Tuesday"}, NoOverrides), c, d>> :
        a \in {Plain("A", "Male"),
               Person("A", "Male", Everywhere, TRUE, FALSE, {"Monday"}, NoOverrides)},
        c \in {Plain("C", "Male"),
               Person("C", "Female", Everywhere, FALSE, FALSE, {"Tuesday"},
                      <<"Monday", 1>> :> FALSE)},
        d \in {Plain("D", "Female"),
               Person("D", "Female", Nowhere, FALSE, FALSE, {}, NoOverrides),
               Person("D", "Male", Nowhere, FALSE, FALSE, {"Monday"},
                      <<"Monday", 0>> :> TRUE)}}

\* A roster large enough to fill a whole day, and to find more complete
\* alternatives than SOLUTION_CAP.
DayRoster ==
    <<Person("A", "Male", Everywhere, FALSE, FALSE, {"Monday"}, NoOverrides),
      Plain("B", "Female"), Plain("C", "Male"), Plain("D", "Female"),
      Plain("E", "Male"), Plain("F", "Female"), Plain("G", "Male"),
      Person("H", "Female", Everywhere, FALSE, FALSE, {"Monday"}, NoOverrides)>>

Shift(cell, locked, names) ==
    [day |-> cell[1], time_idx |-> cell[2], locked |-> locked, assigned_members |-> names]

\* What a shift of a pre-filled grid holds: nothing, the occupants an earlier
\* solve left, or a lock the user set on no, one or two people.
ShiftFills ==
    {<<FALSE, <<>>>>, <<FALSE, <<"A", "C">>>>, <<TRUE, <<>>>>, <<TRUE, <<"B">>>>,
     <<TRUE, <<"B", "D">>>>, <<TRUE, <<"A", "B">>>>}

\* The cells of the pre-filled grids, in grid order.
GridShapes ==
    {<< <<"Monday", 0>> >>,
     << <<"Monday", 0>>, <<"Monday", 1>> >>,
     << <<"Monday", 1>>, <<"Tuesday", 3>> >>,
     << <<"Tuesday", 1>>, <<"Monday", 0>>, <<"Monday", 1>> >>}

GridsOf(shape, fills) ==
    {[i \in 1..Len(shape) |-> Shift(shape[i], f[i][1], f[i][2])] :
        f \in {g \in [1..Len(shape) -> fills] :
                  Cardinality({i \in 1..Len(shape) : g[i][1]}) <= MaxLocked}}

PairChoices == {<<"B", "A">>, <<"C", "D">>}

\* The sequences over S of length at most n.
SeqsUpTo(S, n) == UNION {[1..k -> S] : k \in 0..n}

ForbiddenChoices == SeqsUpTo(PairChoices, MaxForbidden)

Budgets == (1..ScaledBudget) \cup {ATTEMPT_BUDGET}

Input(ms, fp, must, never, limit, grid) ==
    [members |-> ms, forbidden_pairs |-> fp, must_schedule |-> must,
     never_schedule |-> never, attempt_limit |-> limit, grid |-> grid]

\* Pre-filled grids with locks, over the plain roster.
LockInputs ==
    {Input(PlainRoster, fp, must, never, limit, grid) :
        fp \in ForbiddenChoices, must \in {<<>>, <<"D">>}, never \in {<<>>, <<"B">>},
        limit \in Budgets, grid \in UNION {GridsOf(sh, ShiftFills) : sh \in GridShapes}}

\* Grids without locks, over the varied rosters.
RosterInputs ==
    {Input(ms, fp, must, never, limit, grid) :
        ms \in VariedRosters, fp \in ForbiddenChoices, must \in {<<>>, <<"D">>, <<"A", "C">>},
        never \in {<<>>, <<"B">>}, limit \in Budgets,
        grid \in UNION {GridsOf(sh, {<<FALSE, <<>>>>}) : sh \in GridShapes}}

\* No pre-filled grid: Scheduler.__init__ builds the grid of the active days.
DayInputs ==
    {Input(DayRoster, <<>>, must, <<>>, ATTEMPT_BUDGET, InitializeGrid(<<"Monday">>)) :
        must \in {<<>>, <<"H">>}}

\* Locks on a roster of which only A and B are free on Monday at 11:30, the
\* two being a forbidden pair.
PairLockInputs ==
    {Input(ms, << <<"B", "A">> >>, <<>>, <<>>, limit, grid) :
        ms \in {r \in VariedRosters :
                   /\ ~is_available(r[3], "Monday", 1)
                   /\ ~is_available(r[4], "Monday", 1)
                   /\ ~is_available(r[4], "Monday", 0)},
        limit \in Budgets,
        grid \in GridsOf(<< <<"Monday", 0>>, <<"Monday", 1>> >>, ShiftFills)}

\* Shifts locked on nobody or on one person, over the varied rosters.
PartialLockInputs ==
    {Input(ms, <<>>, <<>>, <<>>, limit, grid) :
        ms \in VariedRosters, limit \in Budgets,
        grid \in GridsOf(<< <<"Monday", 0>>, <<"Monday", 1>> >>,
                         {<<FALSE, <<>>>>, <<TRUE, <<>>>>, <<TRUE, <<"B">>>>})}

Inputs == LockInputs \cup RosterInputs \cup DayInputs \cup PairLockInputs \cup PartialLockInputs

Init ==
    \E inp \in Inputs :
        /\ members = inp.members
        /\ forbidden_pairs = inp.forbidden_pairs
        /\ must_schedule = inp.must_schedule
        /\ never_schedule = inp.never_schedule
        /\ attempt_limit = inp.attempt_limit
        /\ pre_filled_grid = inp.grid
        /\ schedule_grid = inp.grid
        /\ assigned_shifts = [n \in {inp.members[i].name : i \in 1..Len(inp.members)} |-> <<>>]
        /\ attempts = 0
        /\ best_grid_state = <<>>
        /\ max_filled_count = -1
        /\ top_schedules = <<>>
        /\ pc = "solve"
        /\ shift_index = 0
        /\ stack = <<>>
        /\ result = NoResult
        /\ visited = <<>>
        /\ previous_state = <<>>
        /\ state_dict = <<>>
        /\ before = <<>>
        /\ once = <<>>
        /\ call = NoCall
        /\ ret = <<>>

Next ==
    \/ SolveInit
    \/ BacktrackEnter
    \/ LoopAssign
    \/ LoopExit
    \/ ReturnToLoop
    \/ ReturnToSolve
    \/ CatchStopIteration
    \/ Finalize

Spec == Init /\ [][Next]_vars


\* ------------------------------------------------------------------------
\* Properties
\* ------------------------------------------------------------------------

Returned == pc = "done"

\* The snapshots solve() leaves behind: the grid, and every recorded alternative.
ReturnedStates ==
    {CaptureState(schedule_grid)} \cup {top_schedules[k].state : k \in 1..Len(top_schedules)}

CellNeedsMale(c) == c[2] = 0 \/ c[2] = 3

HasMale(names) == \E k \in 1..Len(names) : MemberNamed(names[k]).gender = "Male"

\* The occupants a cell held under a lock when solve() was called.
LockedAtCall(c) ==
    IF \E i \in 1..Len(pre_filled_grid) : Cell(pre_filled_grid[i]) = c /\ pre_filled_grid[i].locked
    THEN pre_filled_grid[CHOOSE i \in 1..Len(pre_filled_grid) :
             Cell(pre_filled_grid[i]) = c /\ pre_filled_grid[i].locked].assigned_members
    ELSE <<>>

\* The cells whose shift was locked with two occupants when solve() was called.
FullyLockedAtCall(c) == Len(LockedAtCall(c)) >= 2

HoldsForbiddenPair(names) ==
    \E i, j \in 1..Len(names), k \in 1..Len(forbidden_pairs) :
        i # j /\ names[i] = forbidden_pairs[k][1] /\ names[j] = forbidden_pairs[k][2]

\* C1 as stated: whenever solve() returns a count >= 1, every shift of the
\* grid and of every recorded alternative has exactly 2 occupants, and every
\* shift with time_idx 0 or 3 has a Male occupant.
C1_AsStated ==
    (Returned /\ result >= 1) =>
        \A st \in ReturnedStates : \A c \in DOMAIN st :
            Len(st[c]) = 2 /\ (CellNeedsMale(c) => HasMale(st[c]))

\* C1 amended: whenever solve() returns a count >= 1, every shift of the grid
\* and of every recorded alternative has exactly 2 occupants, and every shift
\* with time_idx 0 or 3 that was not locked with two occupants when solve()
\* was called has a Male occupant.
C1_MaleCoverage ==
    (Returned /\ result >= 1) =>
        \A st \in ReturnedStates : \A c \in DOMAIN st :
            Len(st[c]) = 2 /\ ((CellNeedsMale(c) /\ ~FullyLockedAtCall(c)) => HasMale(st[c]))

\* solve() returned several alternatives for a grid with an opening or closing
\* shift that the search had to fill or complete.
C1_Witness ==
    /\ Returned
    /\ result >= 2
    /\ \E i \in 1..Len(schedule_grid) :
          needs_male(schedule_grid[i]) /\ ~FullyLockedAtCall(Cell(schedule_grid[i]))

\* C2 as stated: after solve() returns, no shift of the grid or of a recorded
\* alternative holds two occupants that form a forbidden pair.
C2_AsStated ==
    Returned => \A st \in ReturnedStates : \A c \in DOMAIN st : ~HoldsForbiddenPair(st[c])

\* C2 amended: after solve() returns, no shift of the grid or of a recorded
\* alternative holds two occupants that form a forbidden pair, except a shift
\* that was locked with both of them when solve() was called.
C2_ForbiddenPairs ==
    Returned =>
        \A st \in ReturnedStates : \A c \in DOMAIN st :
            ~FullyLockedAtCall(c) => ~HoldsForbiddenPair(st[c])

\* solve() returned alternatives under a forbidden pair, with a shift it filled
\* itself while both people of the pair were in the pool.
C2_Witness ==
    /\ Returned
    /\ result >= 1
    /\ forbidden_pairs # <<>>
    /\ \A k \in 1..Len(forbidden_pairs) :
          \A n \in Range(forbidden_pairs[k]) :
              n \in RosterNames /\ n \notin Range(never_schedule)
    /\ \E i \in 1..Len(schedule_grid) :
          /\ ~schedule_grid[i].locked
          /\ Len(schedule_grid[i].assigned_members) = 2
          /\ \A k \in 1..Len(forbidden_pairs) : \A n \in Range(forbidden_pairs[k]) :
                is_available(MemberNamed(n), schedule_grid[i].day, schedule_grid[i].time_idx)

\* C3 as stated: after solve() returns, no never_schedule name occupies a
\* shift of the grid or of a recorded alternative.
C3_AsStated ==
    Returned =>
        \A st \in ReturnedStates : \A c \in DOMAIN st :
            Range(st[c]) \cap Range(never_schedule) = {}

\* C3 amended: after solve() returns, a never_schedule name occupies a shift of
\* the grid or of a recorded alternative only where it was an occupant of that
\* shift, locked, when solve() was called.
C3_NeverSchedule ==
    Returned =>
        \A st \in ReturnedStates : \A c \in DOMAIN st :
            (Range(st[c]) \cap Range(never_schedule)) \subseteq Range(LockedAtCall(c))

\* solve() returned alternatives under a never_schedule name that sits in no
\* lock and would have been free for a shift the search filled.
C3_Witness ==
    /\ Returned
    /\ result >= 1
    /\ \E n \in Range(never_schedule), i \in 1..Len(schedule_grid) :
          /\ n \in RosterNames
          /\ assigned_shifts[n] = <<>>
          /\ ~schedule_grid[i].locked
          /\ Len(schedule_grid[i].assigned_members) = 2
          /\ is_available(MemberNamed(n), schedule_grid[i].day, schedule_grid[i].time_idx)

OccupantsOf(st) == UNION {Range(st[c]) : c \in DOMAIN st}

FullyOccupied(st) == \A c \in DOMAIN st : Len(st[c]) = 2

\* C4: every recorded alternative names every must_schedule person, at every
\* moment of the search, and so does the grid solve() leaves when it returns a
\* count >= 1: a fully occupied leaf that misses one is never recorded.
C4_MustSchedule ==
    /\ \A k \in 1..Len(top_schedules) :
          Range(must_schedule) \subseteq OccupantsOf(top_schedules[k].state)
    /\ (Returned /\ result >= 1) =>
          Range(must_schedule) \subseteq AssignedNames(schedule_grid)

\* solve() returned alternatives under a non-empty must_schedule after the
\* search had examined a fully occupied leaf that misses a must_schedule name.
C4_Witness ==
    /\ Returned
    /\ result >= 1
    /\ must_schedule # <<>>
    /\ \E i \in 1..Len(visited) :
          FullyOccupied(visited[i]) /\ ~(Range(must_schedule) \subseteq OccupantsOf(visited[i]))


\* C5: a shift that is locked with exactly 2 occupants when solve() is called
\* has the same ordered occupants and the same lock flag when solve() has
\* returned, after a normal end of the search as after a halt.
C5_LockedUntouched ==
    Returned =>
        \A i \in 1..Len(pre_filled_grid) :
            (pre_filled_grid[i].locked /\ Len(pre_filled_grid[i].assigned_members) = 2) =>
                \E j \in 1..Len(schedule_grid) :
                    /\ Cell(schedule_grid[j]) = Cell(pre_filled_grid[i])
                    /\ schedule_grid[j].assigned_members = pre_filled_grid[i].assigned_members
                    /\ schedule_grid[j].locked = pre_filled_grid[i].locked

\* solve() returned after a halt by the attempt budget, on a grid with a
\* shift locked on two people: the halted call came from a loop that had
\* placed people in a later shift.
C5_Witness ==
    /\ Returned
    /\ attempts > attempt_limit
    /\ \E i \in 1..Len(pre_filled_grid) :
          pre_filled_grid[i].locked /\ Len(pre_filled_grid[i].assigned_members) = 2
    /\ shift_index > Len(FullyLocked(schedule_grid)) + 1

PreferredSeats(st) ==
    {ck \in UNION {{<<c, k>> : k \in 1..Len(st[c])} : c \in DOMAIN st} :
        ck[1][1] \in MemberNamed(st[ck[1]][ck[2]]).preferred_days}

\* C7: when solve() found a complete alternative, every recorded score is 5
\* per preferred seat, top_schedules is ordered by score descending with equal
\* scores in discovery order, and the grid is the state of the first one: the
\* earliest discovered alternative of maximum score.
C7_BestAlternative ==
    (Returned /\ top_schedules # <<>>) =>
        /\ \A k \in 1..Len(top_schedules) :
              top_schedules[k].score = 5 * Cardinality(PreferredSeats(top_schedules[k].state))
        /\ \A i, j \in 1..Len(top_schedules) :
              i < j => \/ top_schedules[i].score > top_schedules[j].score
                       \/ /\ top_schedules[i].score = top_schedules[j].score
                          /\ top_schedules[i].nth < top_schedules[j].nth
        /\ {top_schedules[k].nth : k \in 1..Len(top_schedules)} = 1..Len(top_schedules)
        /\ CaptureState(schedule_grid) = top_schedules[1].state

\* solve() returned alternatives of different scores, with a tie among them,
\* and the best one was not the first discovered.
C7_Witness ==
    /\ Returned
    /\ \E i, j \in 1..Len(top_schedules) :
          i # j /\ top_schedules[i].score = top_schedules[j].score
    /\ \E i, j \in 1..Len(top_schedules) : top_schedules[i].score # top_schedules[j].score
    /\ top_schedules[1].nth # 1

\* The number of fully occupied shifts of a snapshot.
FilledOf(st) == Cardinality({c \in DOMAIN st : Len(st[c]) = 2})

MaxFilledVisited == CHOOSE n \in {FilledOf(visited[i]) : i \in 1..Len(visited)} :
                        \A i \in 1..Len(visited) : FilledOf(visited[i]) <= n

FirstBestVisited ==
    visited[CHOOSE i \in 1..Len(visited) :
                /\ FilledOf(visited[i]) = MaxFilledVisited
                /\ \A j \in 1..(i - 1) : FilledOf(visited[j]) < MaxFilledVisited]

C8_State ==
    /\ visited # <<>> =>
          /\ max_filled_count = MaxFilledVisited
          /\ best_grid_state = FirstBestVisited
          /\ FilledOf(best_grid_state) = max_filled_count
    /\ (Returned /\ top_schedules = <<>>) =>
          /\ result = 0
          /\ CaptureState(schedule_grid) = FirstBestVisited

\* C8: max_filled_count never decreases; once the search has examined a state,
\* max_filled_count is the largest number of fully occupied shifts among the
\* states examined and best_grid_state is the first examined state with that
\* many; and when no complete alternative was found solve() returns 0 and
\* leaves the grid equal to that snapshot.
C8_BestPartial == [](C8_State) /\ [][max_filled_count' >= max_filled_count]_vars

\* solve() returned 0 with a partly filled grid, after the search had examined
\* a later state with as many fully occupied shifts as the snapshot it kept.
C8_Witness ==
    /\ Returned
    /\ result = 0
    /\ max_filled_count >= 1
    /\ max_filled_count < Len(schedule_grid)
    /\ \E i \in 1..Len(visited) :
          FilledOf(visited[i]) = max_filled_count /\ visited[i] # best_grid_state

SearchOver == pc \in {"stop_iteration", "finalize", "done"}

\* C9: solve() returns the number of recorded alternatives; the search is over
\* as soon as SOLUTION_CAP alternatives are recorded or the number of
\* _backtrack invocations exceeds the budget, so that neither the count nor the
\* number of invocations goes further.
C9_Budget ==
    /\ Returned => result = Len(top_schedules)
    /\ Len(top_schedules) <= SOLUTION_CAP
    /\ attempts <= attempt_limit + 1
    /\ Len(top_schedules) = SOLUTION_CAP => SearchOver
    /\ attempts > attempt_limit => SearchOver

\* solve() returned SOLUTION_CAP alternatives.
C9_Witness == Returned /\ result = SOLUTION_CAP /\ attempt_limit = ATTEMPT_BUDGET

\* A variant of solve(): the calls of _backtrack the budget still allows,
\* then the depth of the recursion, then the place within the loop body.
Rank ==
    LET M == 3 * Len(schedule_grid) + 9
    IN  CASE pc = "done" -> 0
          [] pc = "finalize" -> 1
          [] pc = "stop_iteration" -> 2
          [] pc = "uncaught" -> 0
          [] pc = "solve" -> (attempt_limit + 2) * M
          [] OTHER -> (attempt_limit + 1 - attempts) * M + 3 * Len(stack) + 3
                         + (CASE pc = "return" -> 2 [] pc = "loop" -> 1 [] OTHER -> 0)

\* solve() has a next step: the guard of one of its steps holds.
CanStep ==
    \/ pc \in {"solve", "backtrack", "return", "stop_iteration", "finalize"}
    \/ pc = "loop" /\ stack # <<>>

C10_State ==
    /\ Returned \/ CanStep
    /\ Rank >= 0
    /\ Len(stack) <= Len(schedule_grid)
    /\ pc # "uncaught"
    /\ Returned =>
          /\ result \in Nat
          /\ stack = <<>>
          /\ CaptureState(schedule_grid) =
                (IF top_schedules # <<>> THEN top_schedules[1].state ELSE best_grid_state)

\* C10: every run of solve() comes to its return, with an integer: every step
\* lowers a variant that is never negative, and solve() has a next step
\* wherever it has not returned, so the StopIteration of a halt never leaves
\* it; and the grid solve() leaves is the snapshot of the top alternative when
\* there is one, of the best partial otherwise, also after a halt.
C10_Terminates == [](C10_State) /\ [][Rank' < Rank]_vars

\* solve() returned after a halt by the attempt budget that left shifts filled
\* by the search: the grid it returned is the best partial, of fewer shifts.
C10_Witness ==
    /\ Returned
    /\ attempts > attempt_limit
    /\ result = 0
    /\ max_filled_count >= 1


\* ------------------------------------------------------------------------
\* Construction with a reference state
\* ------------------------------------------------------------------------

\* The inputs of the calls made with or without a reference state.
RefInputs ==
    {inp \in LockInputs :
        inp.forbidden_pairs = <<>> /\ inp.must_schedule = <<>> /\ inp.never_schedule = <<>>}

\* A caller is about to construct the Scheduler; the reroll handlers of the
\* application hand it previous_state = capture_current_state(), the
\* occupants of the grid at that moment.
InitRef ==
    \E inp \in RefInputs :
        /\ members = inp.members
        /\ forbidden_pairs = inp.forbidden_pairs
        /\ must_schedule = inp.must_schedule
        /\ never_schedule = inp.never_schedule
        /\ attempt_limit = inp.attempt_limit
        /\ pre_filled_grid = inp.grid
        /\ schedule_grid = inp.grid
        /\ assigned_shifts = [n \in {inp.members[i].name : i \in 1..Len(inp.members)} |-> <<>>]
        /\ attempts = 0
        /\ best_grid_state = <<>>
        /\ max_filled_count = -1
        /\ top_schedules = <<>>
        /\ pc = "construct"
        /\ shift_index = 0
        /\ stack = <<>>
        /\ result = NoResult
        /\ visited = <<>>
        /\ previous_state \in {<<>>, <<CaptureState(inp.grid)>>}
        /\ state_dict = <<>>
        /\ before = <<>>
        /\ once = <<>>
        /\ call = NoCall
        /\ ret = <<>>

\* Scheduler(members, ..., previous_state=...): __init__ has no parameter of
\* that name (nor a seventh positional one), so the call raises TypeError and
\* no Scheduler exists; without the argument the object is built and solve()
\* can be called.
Construct ==
    /\ pc = "construct"
    /\ pc' = IF previous_state # <<>> THEN "type_error" ELSE "solve"
    /\ attempts' = 0
    /\ best_grid_state' = <<>>
    /\ max_filled_count' = -1
    /\ top_schedules' = <<>>
    /\ UNCHANGED <<inputs, outside, schedule_grid, assigned_shifts, shift_index, stack,
                   result, visited>>

NextRef ==
    \/ Construct
    \/ Next

RefSpec == InitRef /\ [][NextRef]_vars

\* The number of cells of a snapshot whose occupant set differs from the
\* reference's.
DiffCount(state, reference) ==
    Cardinality({c \in DOMAIN state :
        Range(state[c]) # (IF c \in DOMAIN reference THEN Range(reference[c]) ELSE {})})

\* C11: the Scheduler accepts a reference state, and when one is supplied
\* every alternative solve() returns carries its count of cells that differ
\* from the reference, the top alternative's count being at most that of
\* every lower-ranked one.
C11_ReferenceRanking ==
    previous_state # <<>> =>
        /\ pc # "type_error"
        /\ Returned =>
              \A k \in 1..Len(top_schedules) :
                  /\ "changes" \in DOMAIN top_schedules[k]
                  /\ DiffCount(top_schedules[1].state, previous_state[1])
                        <= DiffCount(top_schedules[k].state, previous_state[1])


\* ------------------------------------------------------------------------
\* _capture_state and restore_state as calls of their own
\* ------------------------------------------------------------------------

\* member.assigned_shifts gets the cell unless it already holds it, for every
\* name of the list that is in the roster (load_configuration, lines 481-487)
RECURSIVE AppendCellOnce(_, _, _)
AppendCellOnce(asg, names, cell) ==
    IF names = <<>> THEN asg
    ELSE LET n == Head(names)
             nxt == IF n \in DOMAIN asg /\ cell \notin Range(asg[n])
                    THEN [asg EXCEPT ![n] = Append(@, cell)] ELSE asg
         IN  AppendCellOnce(nxt, Tail(names), cell)

\* load_configuration, the bookkeeping: the application clears every list,
\* then the grid is rebuilt entry by entry.
RECURSIVE LoadedAssigned(_, _)
LoadedAssigned(grid, asg) ==
    IF grid = <<>> THEN asg
    ELSE LoadedAssigned(Tail(grid),
                        AppendCellOnce(asg, Head(grid).assigned_members, Cell(Head(grid))))

\* list.remove(cell): the list without the first occurrence of cell
RemoveFirst(seq, cell) ==
    IF cell \notin Range(seq) THEN seq
    ELSE LET k == CHOOSE j \in 1..Len(seq) : seq[j] = cell /\ \A h \in 1..(j - 1) : seq[h] # cell
         IN  SubSeq(seq, 1, k - 1) \o SubSeq(seq, k + 1, Len(seq))

\* str.endswith
EndsWith(s, suffix) ==
    Len(s) >= Len(suffix) /\ SubSeq(s, Len(s) - Len(suffix) + 1, Len(s)) = suffix

\* s.split(")")[-1]: what follows the last ")" of s, s itself when it has none
AfterLastParen(s) ==
    LET at == {i \in 1..Len(s) : SubSeq(s, i, i) = ")"}
    IN  IF at = {} THEN s
        ELSE SubSeq(s, (CHOOSE i \in at : \A j \in at : j <= i) + 1, Len(s))

\* str.strip, for the spaces a name can hold
RECURSIVE Strip(_)
Strip(s) ==
    IF Len(s) = 0 THEN s
    ELSE IF SubSeq(s, 1, 1) = " " THEN Strip(SubSeq(s, 2, Len(s)))
    ELSE IF SubSeq(s, Len(s), Len(s)) = " " THEN Strip(SubSeq(s, 1, Len(s) - 1))
    ELSE s

\* old_m.name.split(")")[-1].strip(): the name perform_overwrite_assign looks
\* a former occupant up by
LookupName(name) == Strip(AfterLastParen(name))

\* perform_overwrite_assign(target, []), the bookkeeping: the cell of the
\* target leaves the list of each of its occupants that find_member_exact
\* finds.
RECURSIVE OverwriteAssigned(_, _, _)
OverwriteAssigned(asg, names, cell) ==
    IF names = <<>> THEN asg
    ELSE OverwriteAssigned(
             IF LookupName(Head(names)) \in DOMAIN asg
             THEN [asg EXCEPT ![LookupName(Head(names))] = RemoveFirst(@, cell)] ELSE asg,
             Tail(names), cell)

\* The Lock & Reroll handler of the Partner Matcher, up to its Scheduler
\* call: target.assigned_members = [p1, p2]; target.locked = True, with no
\* entry made in the lists of p1 and p2 and neither removed from other shifts.
PartnerMatchedGrid(grid, i, pair) ==
    [grid EXCEPT ![i] = [@ EXCEPT !.assigned_members = pair, !.locked = TRUE]]

\* The grids on which the calls are made: at most two shifts.
RestoreGrids == UNION {GridsOf(sh, ShiftFills) : sh \in {g \in GridShapes : Len(g) <= 2}}

\* The Scheduler states in which _capture_state and restore_state are called:
\* as load_configuration hands the grid over, as solve() stands when
\* _backtrack first captures the grid (after the locks are restored and the
\* shifts ordered), and as the Partner Matcher leaves the grid.
RestoreStates ==
    LET none == [n \in {PlainRoster[i].name : i \in 1..Len(PlainRoster)} |-> <<>>]
    IN  {[grid |-> g, assigned |-> LoadedAssigned(g, none)] : g \in RestoreGrids}
        \cup {[grid |-> OrderedGrid(LockRestoredGrid(g), LockRestoredAssigned(g, none)),
               assigned |-> LockRestoredAssigned(g, none)] : g \in RestoreGrids}
        \cup {[grid |-> PartnerMatchedGrid(g, i, pair),
               assigned |-> OverwriteAssigned(LoadedAssigned(g, none),
                                              g[i].assigned_members, Cell(g[i]))] :
                 g \in RestoreGrids, i \in {1}, pair \in {<<"A", "B">>}}

\* What a state handed to restore_state holds for a cell: names of the roster,
\* and names that resolve to no member (Z).
SavedLists == {<<>>, <<"A", "C">>, <<"Z">>, <<"B", "Z", "A">>}

\* The states handed to restore_state: a mapping of some of the grid's cells,
\* and possibly of a cell the grid does not have.
StateDicts(grid) ==
    LET cells == {Cell(grid[i]) : i \in 1..Len(grid)} \cup {<<"Friday", 2>>}
    IN  UNION {[D -> SavedLists] : D \in SUBSET cells}

InitRestore ==
    /\ members = PlainRoster
    /\ forbidden_pairs = <<>>
    /\ must_schedule = <<>>
    /\ never_schedule = <<>>
    /\ attempt_limit = ATTEMPT_BUDGET
    /\ \E st \in RestoreStates :
          /\ pre_filled_grid = st.grid
          /\ schedule_grid = st.grid
          /\ assigned_shifts = st.assigned
    /\ attempts = 0
    /\ best_grid_state = <<>>
    /\ max_filled_count = -1
    /\ top_schedules = <<>>
    /\ pc = "idle"
    /\ shift_index = 0
    /\ stack = <<>>
    /\ result = NoResult
    /\ visited = <<>>
    /\ previous_state = <<>>
    /\ state_dict = <<>>
    /\ before = <<>>
    /\ once = <<>>
    /\ call = NoCall
    /\ ret = <<>>

solve_vars == <<inputs, attempts, best_grid_state, max_filled_count, top_schedules,
                shift_index, stack, result, visited, previous_state, call, ret>>

Snapshot == [grid |-> schedule_grid, assigned |-> assigned_shifts]

\* state = self._capture_state()
CaptureStateCall ==
    /\ pc = "idle"
    /\ state_dict' = <<CaptureState(schedule_grid)>>
    /\ before' = <<Snapshot>>
    /\ pc' = "captured"
    /\ UNCHANGED <<solve_vars, schedule_grid, assigned_shifts, once>>

\* A caller picks the state it will hand to restore_state.
StateGiven ==
    /\ pc = "idle"
    /\ \E st \in StateDicts(schedule_grid) : state_dict' = <<st>>
    /\ before' = <<Snapshot>>
    /\ pc' = "given"
    /\ UNCHANGED <<solve_vars, schedule_grid, assigned_shifts, once>>

\* self.restore_state(state): of the captured state, of a given state, and of
\* the given state a second time.
RestoreState ==
    /\ pc \in {"captured", "given", "restored"}
    /\ schedule_grid' = RestoredGrid(schedule_grid, state_dict[1])
    /\ assigned_shifts' = RestoredAssigned(schedule_grid, state_dict[1], NoAssignments)
    /\ once' = IF pc = "given"
               THEN <<[grid |-> schedule_grid', assigned |-> assigned_shifts']>>
               ELSE once
    /\ pc' = CASE pc = "captured" -> "round_trip"
               [] pc = "given" -> "restored"
               [] pc = "restored" -> "restored_twice"
    /\ UNCHANGED <<solve_vars, state_dict, before>>

NextRestore ==
    \/ CaptureStateCall
    \/ StateGiven
    \/ RestoreState

RestoreSpec == InitRestore /\ [][NextRestore]_vars


\* The cells of the shifts that hold the name, in grid order, one per
\* occurrence of the name.
RECURSIVE HeldCells(_, _)
HeldCells(grid, name) ==
    IF grid = <<>> THEN <<>>
    ELSE LET names == Head(grid).assigned_members
             count == Cardinality({k \in 1..Len(names) : names[k] = name})
         IN  [j \in 1..count |-> Cell(Head(grid))] \o HeldCells(Tail(grid), name)

\* Every occupant of the grid is a member of the roster.
OccupantsInRoster(grid) ==
    \A i \in 1..Len(grid) : Range(grid[i].assigned_members) \subseteq RosterNames

\* Every person's list is the cells of the shifts holding the person, in grid
\* order.
InGridOrder(snap) == \A n \in DOMAIN snap.assigned : snap.assigned[n] = HeldCells(snap.grid, n)

\* C12 as stated: for every grid whose occupants are all members of the
\* roster, restore_state(_capture_state()) leaves every shift's occupant list
\* and every person's assigned_shifts list as they were before the capture.
C12_AsStated ==
    (pc = "round_trip" /\ OccupantsInRoster(before[1].grid)) => Snapshot = before[1]

\* C12 amended: for every such grid, restore_state(_capture_state()) leaves
\* every shift as it was and makes every person's assigned_shifts the list, in
\* grid order, of the cells of the shifts holding the person; so the lists are
\* as they were before the capture when they were that list already.
C12_RoundTrip ==
    (pc = "round_trip" /\ OccupantsInRoster(before[1].grid)) =>
        /\ schedule_grid = before[1].grid
        /\ InGridOrder(Snapshot)
        /\ InGridOrder(before[1]) => assigned_shifts = before[1].assigned

\* The round trip was made on a grid whose lists were in grid order, with a
\* person who holds two shifts.
C12_Witness ==
    /\ pc = "round_trip"
    /\ InGridOrder(before[1])
    /\ \E n \in RosterNames : Len(before[1].assigned[n]) >= 2


\* C13: restore_state is idempotent: a second restore_state(state) leaves
\* every shift's occupant list and every person's assigned_shifts list as the
\* first one left them, for any state and any grid.
C13_Idempotent == pc = "restored_twice" => Snapshot = once[1]

\* restore_state was called twice with a state that changed the grid and
\* resolved names into it.
C13_Witness ==
    /\ pc = "restored_twice"
    /\ once[1] # before[1]
    /\ \E i \in 1..Len(schedule_grid) : schedule_grid[i].assigned_members # <<>>
    /\ \E i \in 1..Len(before[1].grid) : before[1].grid[i].assigned_members # <<>>

\* The positions of a saved list whose name is a member of the roster.
ResolvedPositions(saved) == {p \in 1..Len(saved) : saved[p] \in RosterNames}

\* C14: restore_state comes to its end on a state that names people absent
\* from the roster; every shift then holds exactly the saved names of its cell
\* that are in the roster, in their saved order, and the lists of
\* assigned_shifts are those of the roster, with one entry per restored
\* occupant and none for a dropped name.
C14_UnresolvableDropped ==
    pc = "restored" =>
        /\ \A i \in 1..Len(schedule_grid) :
              LET c == Cell(schedule_grid[i])
                  saved == IF c \in DOMAIN state_dict[1] THEN state_dict[1][c] ELSE <<>>
                  occ == schedule_grid[i].assigned_members
              IN  /\ Len(occ) = Cardinality(ResolvedPositions(saved))
                  /\ \A k \in 1..Len(occ) :
                        \E p \in ResolvedPositions(saved) :
                            /\ occ[k] = saved[p]
                            /\ Cardinality({q \in ResolvedPositions(saved) : q <= p}) = k
        /\ DOMAIN assigned_shifts = RosterNames
        /\ \A n \in RosterNames : assigned_shifts[n] = HeldCells(schedule_grid, n)

\* restore_state was called with a state that names, for a shift of the grid,
\* an absent person between two members of the roster.
C14_Witness ==
    /\ pc = "restored"
    /\ \E i \in 1..Len(schedule_grid) :
          /\ Cell(schedule_grid[i]) \in DOMAIN state_dict[1]
          /\ state_dict[1][Cell(schedule_grid[i])] = <<"B", "Z", "A">>
          /\ schedule_grid[i].assigned_members = <<"B", "A">>


\* ------------------------------------------------------------------------
\* solve() and the restore calls together
\* ------------------------------------------------------------------------

SolveRestoreSpec == (Init \/ InitRestore) /\ [][Next \/ NextRestore]_vars

\* How often x occurs in the sequence.
Occurrences(seq, x) == Cardinality({k \in 1..Len(seq) : seq[k] = x})

\* The bookkeeping agrees with the grid.
Consistent ==
    \A n \in RosterNames : \A i \in 1..Len(schedule_grid) :
        Occurrences(assigned_shifts[n], Cell(schedule_grid[i]))
            = Occurrences(schedule_grid[i].assigned_members, n)

\* C15: once solve() has restored the locks, at every state of the
\* backtracking (a halt included) and after solve() has returned, and after
\* every return of restore_state, each person's assigned_shifts holds the cell
\* of each shift as often as the shift holds the person.
C15_Bookkeeping ==
    pc \in {"backtrack", "loop", "return", "stop_iteration", "finalize", "done",
            "round_trip", "restored", "restored_twice"} => Consistent

\* The budget halted the search inside a loop: the candidate placed last has
\* not been taken back.
C15_Witness ==
    /\ pc = "stop_iteration"
    /\ stack # <<>>
    /\ \E i \in 1..Len(schedule_grid) :
          ~schedule_grid[i].locked /\ Len(schedule_grid[i].assigned_members) = 2


\* ------------------------------------------------------------------------
\* Member.is_available and find_best_slots_for_pair as calls of their own
\* ------------------------------------------------------------------------

\* A pair test that lets two women take an opening or closing slot.
PairCoversSlotUnchecked(p1, p2, time_idx) == TRUE

\* Line 293 of find_best_slots_for_pair, negated: the slot is kept unless it
\* is the first or last of the day and neither of the two is Male.
PairCoversSlot(p1, p2, time_idx) ==
    ~((time_idx = 0 \/ time_idx = 3) /\ ~(p1.gender = "Male" \/ p2.gender = "Male"))

\* for day in active_days: for time_label, time_idx in TIME_SLOTS.items()
DaySlots(active_days) ==
    [j \in 1..(Len(active_days) * Len(TIME_SLOTS)) |->
        [day |-> active_days[((j - 1) \div Len(TIME_SLOTS)) + 1],
         slot |-> ((j - 1) % Len(TIME_SLOTS)) + 1]]

\* The entry find_best_slots_for_pair appends for a (day, slot) it keeps.
RankedSlot(p1, p2, day, slot) ==
    [day |-> day,
     time_idx |-> TIME_SLOTS[slot],
     time_label |-> TIME_LABELS[slot],
     score |-> BASE_SCORE
               + (IF day \in p1.preferred_days THEN PREFERRED_BONUS ELSE 0)
               + (IF day \in p2.preferred_days THEN PREFERRED_BONUS ELSE 0)
               + COVERAGE_BONUS,
     reason |-> <<"Both Available">>
                \o (IF day \in p1.preferred_days THEN <<p1.name \o " prefers " \o day>> ELSE <<>>)
                \o (IF day \in p2.preferred_days THEN <<p2.name \o " prefers " \o day>> ELSE <<>>)]

\* A descending sort made of an ascending sort and a reversal.
SortRankedSlotsReversed(slots) ==
    LET asc == Permute(slots, SortedIndexAsc([k \in 1..Len(slots) |-> slots[k].score]))
    IN  [k \in 1..Len(slots) |-> asc[Len(slots) + 1 - k]]

\* ranked_slots.sort(key=lambda x: x['score'], reverse=True)
SortRankedSlots(slots) ==
    Permute(slots, SortedIndexDesc([k \in 1..Len(slots) |-> slots[k].score]))

\* find_best_slots_for_pair
FindBestSlotsForPair(p1, p2, active_days) ==
    LET kept == SelectSeq(DaySlots(active_days),
                    LAMBDA ds : /\ is_available(p1, ds.day, TIME_SLOTS[ds.slot])
                                /\ is_available(p2, ds.day, TIME_SLOTS[ds.slot])
                                /\ PairCoversSlot(p1, p2, TIME_SLOTS[ds.slot]))
    IN  SortRankedSlots([k \in 1..Len(kept) |-> RankedSlot(p1, p2, kept[k].day, kept[k].slot)])

\* The people is_available is asked about: base availability with every day,
\* with Monday alone and with no slot at all, the two avoid flags, and
\* overrides that agree and disagree with them.
AvailabilityChoices == {Everywhere, Nowhere, "Monday" :> {0, 1, 3}}

OverrideChoices ==
    {NoOverrides, <<"Monday", 0>> :> TRUE, <<"Monday", 0>> :> FALSE,
     (<<"Monday", 3>> :> TRUE) @@ (<<"Tuesday", 1>> :> FALSE),
     <<"Tuesday", 3>> :> TRUE}

AvailabilityCalls ==
    {[op |-> "is_available",
      m |-> Person("A", "Male", av, ao, ac, {}, ov),
      day |-> day, time_idx |-> t] :
        av \in AvailabilityChoices, ao \in BOOLEAN, ac \in BOOLEAN, ov \in OverrideChoices,
        day \in {"Monday", "Tuesday"}, t \in {0, 1, 2, 3}}

\* The people of the Partner Matcher: the members of the varied rosters.
PairPeople == UNION {Range(r) : r \in VariedRosters}

\* selected_days, as the application's day selection orders them.
ActiveDayChoices ==
    {<<"Monday">>, <<"Monday", "Tuesday">>, <<"Tuesday", "Monday">>,
     <<"Tuesday", "Wednesday", "Monday">>}

PairCalls ==
    {[op |-> "find_best_slots_for_pair", p1 |-> p1, p2 |-> p2, active_days |-> days] :
        p1 \in PairPeople, p2 \in PairPeople, days \in ActiveDayChoices}

\* A caller is about to make the call; the Scheduler's own state is that of a
\* fresh session.
InitUtil ==
    \E c \in AvailabilityCalls \cup {pc2 \in PairCalls : pc2.p1.name # pc2.p2.name} :
        /\ call = c
        /\ ret = <<>>
        /\ members = IF c.op = "is_available" THEN <<c.m>> ELSE <<c.p1, c.p2>>
        /\ forbidden_pairs = <<>>
        /\ must_schedule = <<>>
        /\ never_schedule = <<>>
        /\ attempt_limit = ATTEMPT_BUDGET
        /\ pre_filled_grid = InitializeGrid(<<"Monday">>)
        /\ schedule_grid = InitializeGrid(<<"Monday">>)
        /\ assigned_shifts = [n \in (IF c.op = "is_available" THEN {c.m.name}
                                     ELSE {c.p1.name, c.p2.name}) |-> <<>>]
        /\ attempts = 0
        /\ best_grid_state = <<>>
        /\ max_filled_count = -1
        /\ top_schedules = <<>>
        /\ pc = "call"
        /\ shift_index = 0
        /\ stack = <<>>
        /\ result = NoResult
        /\ visited = <<>>
        /\ previous_state = <<>>
        /\ state_dict = <<>>
        /\ before = <<>>
        /\ once = <<>>

scheduler_vars == <<inputs, schedule_grid, assigned_shifts, attempts, best_grid_state,
                    max_filled_count, top_schedules, shift_index, stack, result, visited,
                    previous_state, state_dict, before, once>>

\* m.is_available(day, time_idx)
IsAvailableCall ==
    /\ pc = "call"
    /\ call.op = "is_available"
    /\ ret' = <<is_available(call.m, call.day, call.time_idx)>>
    /\ pc' = "returned"
    /\ UNCHANGED <<scheduler_vars, call>>

\* find_best_slots_for_pair(p1, p2, active_days)
FindBestSlotsForPairCall ==
    /\ pc = "call"
    /\ call.op = "find_best_slots_for_pair"
    /\ ret' = <<FindBestSlotsForPair(call.p1, call.p2, call.active_days)>>
    /\ pc' = "returned"
    /\ UNCHANGED <<scheduler_vars, call>>

NextUtil ==
    \/ IsAvailableCall
    \/ FindBestSlotsForPairCall

UtilSpec == InitUtil /\ [][NextUtil]_vars

IsAvailableReturned == pc = "returned" /\ call.op = "is_available"

\* C16: is_available returns the override of the (day, slot) whenever there
\* is one, whatever the base availability and the avoid flags; otherwise it
\* returns true exactly when the slot is in availability[day] and neither
\* avoid flag forbids it; without an override, a day or slot absent from
\* availability is unavailable.
C16_Availability ==
    IsAvailableReturned =>
        LET m == call.m
            cell == <<call.day, call.time_idx>>
            in_base == call.day \in DOMAIN m.availability
                       /\ call.time_idx \in m.availability[call.day]
        IN  /\ cell \in DOMAIN m.time_overrides => ret[1] = m.time_overrides[cell]
            /\ cell \notin DOMAIN m.time_overrides =>
                  (ret[1] <=> /\ in_base
                              /\ ~(m.avoid_opening /\ call.time_idx = 0)
                              /\ ~(m.avoid_closing /\ call.time_idx = 3))
            /\ (cell \notin DOMAIN m.time_overrides /\ ~in_base) => ret[1] = FALSE

\* is_available answered true from an override, for an opening slot of a
\* person who avoids opening and whose base availability lacks the slot.
C16_Witness ==
    /\ IsAvailableReturned
    /\ ret[1] = TRUE
    /\ call.time_idx = 0
    /\ call.m.avoid_opening
    /\ ~(call.day \in DOMAIN call.m.availability
          /\ call.time_idx \in call.m.availability[call.day])

FindBestSlotsReturned == pc = "returned" /\ call.op = "find_best_slots_for_pair"

\* Whether the pair qualifies for the (day, slot): both are available, and one
\* of them is Male when the slot is 0 or 3.
Qualifies(p1, p2, day, t) ==
    /\ is_available(p1, day, t)
    /\ is_available(p2, day, t)
    /\ (t = 0 \/ t = 3) => (p1.gender = "Male" \/ p2.gender = "Male")

C19_State ==
    FindBestSlotsReturned =>
        LET r == ret[1]
            p1 == call.p1
            p2 == call.p2
        IN  /\ \A k \in 1..Len(r) :
                  /\ r[k].day \in Range(call.active_days)
                  /\ r[k].time_idx \in 0..3
                  /\ r[k].score = 100 + (IF r[k].day \in p1.preferred_days THEN 10 ELSE 0)
                                      + (IF r[k].day \in p2.preferred_days THEN 10 ELSE 0) + 5
            /\ \A day \in Range(call.active_days) : \A t \in 0..3 :
                  Cardinality({k \in 1..Len(r) : r[k].day = day /\ r[k].time_idx = t})
                      = (IF Qualifies(p1, p2, day, t) THEN 1 ELSE 0)

\* C19: find_best_slots_for_pair returns exactly one entry for each (day,
\* slot) of the active days at which both are available and, for slot 0 or 3,
\* one of them is Male, and no other entry; an entry's score is 100, plus 10
\* for each of the two who prefers the day, plus 5; the call changes neither
\* the two people nor the roster, the grid or anyone's assigned_shifts.
C19_PairSlots ==
    [](C19_State) /\ [][call.op = "find_best_slots_for_pair" => UNCHANGED <<call, scheduler_vars>>]_vars

\* The call returned entries with a preference bonus and left out a slot at
\* which both are available but neither is Male.
C19_Witness ==
    /\ FindBestSlotsReturned
    /\ \E k \in 1..Len(ret[1]) : ret[1][k].score > 105
    /\ \E day \in Range(call.active_days) : \E t \in {0, 3} :
          /\ is_available(call.p1, day, t)
          /\ is_available(call.p2, day, t)
          /\ ~Qualifies(call.p1, call.p2, day, t)

\* The place of an entry in the iteration of find_best_slots_for_pair: the
\* days in the order of active_days, the slots of a day from 0 to 3.
IterationIndex(entry, active_days) ==
    4 * (CHOOSE d \in 1..Len(active_days) : active_days[d] = entry.day) + entry.time_idx

\* C20: the list find_best_slots_for_pair returns is in non-increasing order
\* of score, entries of equal score in the order of the iteration (active_days
\* order, then slot 0 to 3).
C20_Ranked ==
    FindBestSlotsReturned =>
        \A i, j \in 1..Len(ret[1]) :
            i < j => \/ ret[1][i].score > ret[1][j].score
                     \/ /\ ret[1][i].score = ret[1][j].score
                        /\ IterationIndex(ret[1][i], call.active_days)
                              < IterationIndex(ret[1][j], call.active_days)

\* The call returned entries of equal score, and an entry of a later day ahead
\* of an entry of an earlier day.
C20_Witness ==
    /\ FindBestSlotsReturned
    /\ \E i, j \in 1..Len(ret[1]) : i # j /\ ret[1][i].score = ret[1][j].score
    /\ \E i, j \in 1..Len(ret[1]) :
          /\ i < j
          /\ IterationIndex(ret[1][i], call.active_days)
                > IterationIndex(ret[1][j], call.active_days)


\* ------------------------------------------------------------------------
\* solve() under constraints that cannot be met
\* ------------------------------------------------------------------------

\* The roster members free for the cell.
AvailableFor(c) == {n \in RosterNames : is_available(MemberNamed(n), c[1], c[2])}

\* The names locked into some shift when solve() was called.
LockedNamesAtCall ==
    UNION {Range(pre_filled_grid[i].assigned_members) :
              i \in {j \in 1..Len(pre_filled_grid) : pre_filled_grid[j].locked}}

\* The must_schedule names of people who are free for no shift of the grid and
\* sit in no locked shift.
UnplaceableMust ==
    {n \in Range(must_schedule) \cap RosterNames :
        /\ \A i \in 1..Len(pre_filled_grid) : n \notin AvailableFor(Cell(pre_filled_grid[i]))
        /\ n \notin LockedNamesAtCall}

\* C17: when a must_schedule name belongs to a person who is available at no
\* (day, slot) of the grid and occupies no locked shift, solve() returns 0 and
\* the person occupies no shift of the grid it leaves.
C17_UnplaceableMust ==
    (Returned /\ UnplaceableMust # {}) =>
        /\ result = 0
        /\ UnplaceableMust \cap AssignedNames(schedule_grid) = {}

\* solve() returned with such a must_schedule name after the search had
\* examined a grid with every shift fully occupied.
C17_Witness ==
    /\ Returned
    /\ UnplaceableMust # {}
    /\ \E i \in 1..Len(visited) : FullyOccupied(visited[i])

\* The unlocked shifts of the grid as handed in, with the two people who alone
\* are available for the shift and who form a forbidden pair.
ForbiddenOnlyPairs ==
    {x \in {<<Cell(pre_filled_grid[i]), AvailableFor(Cell(pre_filled_grid[i]))>> :
               i \in {j \in 1..Len(pre_filled_grid) : ~pre_filled_grid[j].locked}} :
        /\ Cardinality(x[2]) = 2
        /\ \E k \in 1..Len(forbidden_pairs) :
              {forbidden_pairs[k][1], forbidden_pairs[k][2]} = x[2]}

\* The occupants of the shift of the cell in the grid.
OccupantsAt(grid, c) == grid[CHOOSE i \in 1..Len(grid) : Cell(grid[i]) = c].assigned_members

\* C18 as stated: if the only two people available for an unlocked shift form
\* a forbidden pair, then after solve() the shift has no occupants, solve()
\* returns 0 and no other shift of the grid holds both of them.
C18_AsStated ==
    Returned =>
        \A x \in ForbiddenOnlyPairs :
            /\ OccupantsAt(schedule_grid, x[1]) = <<>>
            /\ result = 0
            /\ \A i \in 1..Len(schedule_grid) :
                  ~(x[2] \subseteq Range(schedule_grid[i].assigned_members))

\* C18 amended: ... and no other shift of the grid holds both of them, except
\* a shift that was locked with both of them when solve() was called.
C18_ForbiddenOnlyPair ==
    Returned =>
        \A x \in ForbiddenOnlyPairs :
            /\ OccupantsAt(schedule_grid, x[1]) = <<>>
            /\ result = 0
            /\ \A i \in 1..Len(schedule_grid) :
                  x[2] \subseteq Range(schedule_grid[i].assigned_members)
                      => x[2] \subseteq Range(LockedAtCall(Cell(schedule_grid[i])))

\* solve() returned from a grid with such a shift and another, unlocked shift
\* for which both people of the pair are free.
C18_Witness ==
    /\ Returned
    /\ attempts >= 1
    /\ \E x \in ForbiddenOnlyPairs :
          \E i \in 1..Len(schedule_grid) :
              /\ Cell(schedule_grid[i]) # x[1]
              /\ ~schedule_grid[i].locked
              /\ x[2] \subseteq AvailableFor(Cell(schedule_grid[i]))

\* ------------------------------------------------------------------------
\* What the search places
\* ------------------------------------------------------------------------

\* The occupants a cell holds once solve() has restored the locks: those of a
\* lock that resolve to a roster member.
LockRestoredAt(c) == Resolvable(LockedAtCall(c))

\* The seats of a snapshot's cell that the search placed: every seat behind
\* the occupants the lock restoration left in the shift.
PlacedSeats(st, c) == {k \in 1..Len(st[c]) : k > Len(LockRestoredAt(c))}

\* The snapshots of a run: the grid, every grid _backtrack examined, the best
\* partial and every recorded alternative.
SearchStates ==
    {CaptureState(schedule_grid), best_grid_state}
        \cup Range(visited)
        \cup {top_schedules[k].state : k \in 1..Len(top_schedules)}

\* solve() has restored the locks and ordered the grid.
Searching == pc # "solve"

\* C21: every occupant the search places (both seats of a shift that was
\* unlocked or locked empty, the second seat of a shift locked with one
\* occupant) is available at the shift's (day, time_idx), in every visited
\* state, every recorded alternative and the returned grid.
C21_PlacedAvailable ==
    Searching =>
        \A st \in SearchStates : \A c \in DOMAIN st : \A k \in PlacedSeats(st, c) :
            is_available(MemberNamed(st[c][k]), c[1], c[2])

\* solve() returned a grid in which the search completed a shift locked with
\* one occupant, a working member without a shift not being free for it.
C21_Witness ==
    /\ Returned
    /\ \E i \in 1..Len(schedule_grid) :
          LET c == Cell(schedule_grid[i])
          IN  /\ Len(LockRestoredAt(c)) = 1
              /\ PlacedSeats(CaptureState(schedule_grid), c) = {2}
              /\ \E j \in 1..Len(working_members) :
                    /\ assigned_shifts[working_members[j].name] = <<>>
                    /\ ~is_available(working_members[j], c[1], c[2])

\* The seats (cell, position) of a snapshot that hold the name.
SeatsOf(st, n) ==
    {ck \in UNION {{<<c, k>> : k \in 1..Len(st[c])} : c \in DOMAIN st} : st[ck[1]][ck[2]] = n}

\* The names the lock restoration left in some shift.
LockRestoredNames == UNION {Range(LockRestoredAt(Cell(pre_filled_grid[i]))) :
                               i \in 1..Len(pre_filled_grid)}

\* C22: in every state the search visits and in the grid solve() returns, a
\* person the search placed holds that one seat of the whole grid and sat in no
\* locked shift before; so a person holds several seats only where all of them
\* are seats of locked shifts the person held when solve() was called.
C22_SingleShift ==
    Searching =>
        \A st \in SearchStates :
            /\ \A c \in DOMAIN st : \A k \in PlacedSeats(st, c) :
                  /\ SeatsOf(st, st[c][k]) = {<<c, k>>}
                  /\ st[c][k] \notin LockRestoredNames
            /\ \A n \in OccupantsOf(st) :
                  Cardinality(SeatsOf(st, n)) > 1 =>
                      \A ck \in SeatsOf(st, n) :
                          /\ ck[2] <= Len(LockRestoredAt(ck[1]))
                          /\ LockRestoredAt(ck[1])[ck[2]] = n

\* solve() returned a grid in which a person sits in two locked shifts and the
\* search placed people in another shift that this person is free for.
C22_Witness ==
    /\ Returned
    /\ \E n \in LockRestoredNames :
          /\ n \notin Range(never_schedule)
          /\ Cardinality(SeatsOf(CaptureState(schedule_grid), n)) >= 2
          /\ \E i \in 1..Len(schedule_grid) :
                /\ PlacedSeats(CaptureState(schedule_grid), Cell(schedule_grid[i])) # {}
                /\ n \in AvailableFor(Cell(schedule_grid[i]))
                /\ n \notin Range(schedule_grid[i].assigned_members)

\* ------------------------------------------------------------------------
\* The order of the shifts
\* ------------------------------------------------------------------------

\* The position of the cell in the grid as handed to solve().
OriginalIndex(c) == CHOOSE i \in 1..Len(pre_filled_grid) : Cell(pre_filled_grid[i]) = c

\* get_difficulty of the cell's shift in the lock-restored state: the number
\* of valid partners when the shift holds one occupant, of valid pairs
\* otherwise.
InitialDifficulty(c) ==
    Difficulty(LockRestoredGrid(pre_filled_grid)[OriginalIndex(c)],
               LockRestoredAssigned(pre_filled_grid, NoAssignments))

\* The shift of the cell was locked with at least 2 occupants after the lock
\* restoration.
FullyLockedCell(c) == pre_filled_grid[OriginalIndex(c)].locked /\ Len(LockRestoredAt(c)) >= 2

CellsOf(grid) == {Cell(grid[i]) : i \in 1..Len(grid)}

\* solve() has restored the locks and ordered the grid, and is about to make
\* the first call of _backtrack.
Initialised == pc = "backtrack" /\ attempts = 0

\* C23: after its initialisation solve() holds the grid in this order: the
\* shifts locked with at least 2 occupants first, then every other shift by
\* non-decreasing difficulty, the difficulty being the number of valid
\* partners (one occupant) or valid pairs (otherwise) in the lock-restored
\* state; among shifts of equal difficulty the locked ones come before the
\* unlocked ones and otherwise the original order is kept; the set of cells of
\* the grid is the one handed in.
C23_MostConstrainedFirst ==
    Initialised =>
        /\ Len(schedule_grid) = Len(pre_filled_grid)
        /\ CellsOf(schedule_grid) = CellsOf(pre_filled_grid)
        /\ \A i, j \in 1..Len(schedule_grid) :
              LET ci == Cell(schedule_grid[i])
                  cj == Cell(schedule_grid[j])
              IN  i < j =>
                    /\ FullyLockedCell(cj) => FullyLockedCell(ci)
                    /\ (~FullyLockedCell(ci) /\ ~FullyLockedCell(cj)) =>
                          \/ InitialDifficulty(ci) < InitialDifficulty(cj)
                          \/ /\ InitialDifficulty(ci) = InitialDifficulty(cj)
                             /\ \/ schedule_grid[i].locked /\ ~schedule_grid[j].locked
                                \/ /\ schedule_grid[i].locked = schedule_grid[j].locked
                                   /\ OriginalIndex(ci) < OriginalIndex(cj)

\* solve() has ordered a grid with a shift locked on two people that was not
\* its first shift, and with a locked shift that moved ahead of an unlocked
\* shift of the same difficulty.
C23_Witness ==
    /\ Initialised
    /\ FullyLockedCell(Cell(schedule_grid[1]))
    /\ OriginalIndex(Cell(schedule_grid[1])) > 1
    /\ \E i, j \in 1..Len(schedule_grid) :
          LET ci == Cell(schedule_grid[i])
              cj == Cell(schedule_grid[j])
          IN  /\ i < j
              /\ ~FullyLockedCell(ci)
              /\ schedule_grid[i].locked
              /\ ~schedule_grid[j].locked
              /\ InitialDifficulty(ci) = InitialDifficulty(cj)
              /\ InitialDifficulty(ci) > 0
              /\ OriginalIndex(ci) > OriginalIndex(cj)

\* ------------------------------------------------------------------------
\* Shifts locked with a seat missing
\* ------------------------------------------------------------------------

\* The positions of the grid as handed in whose shift is locked with fewer
\* than 2 occupants.
PartiallyLockedAtCall ==
    {i \in 1..Len(pre_filled_grid) :
        pre_filled_grid[i].locked /\ Len(pre_filled_grid[i].assigned_members) < 2}

\* C24: a shift that is locked with fewer than 2 occupants when solve() is
\* called keeps the occupant it has in first position, and gets no more
\* occupants than it has seats missing, in every visited state, the best
\* partial, every recorded alternative and the grid, up to the return.
C24_MissingSeatOnly ==
    Searching =>
        \A st \in SearchStates : \A i \in PartiallyLockedAtCall :
            LET c == Cell(pre_filled_grid[i])
                held == pre_filled_grid[i].assigned_members
            IN  c \in DOMAIN st =>
                    /\ Len(st[c]) >= Len(held)
                    /\ Len(st[c]) - Len(held) <= 2 - Len(held)
                    /\ SubSeq(st[c], 1, Len(held)) = held

\* solve() returned several alternatives for a grid with a shift locked on one
\* person, which the search completed.
C24_Witness ==
    /\ Returned
    /\ result >= 2
    /\ \E i \in PartiallyLockedAtCall :
          /\ Len(pre_filled_grid[i].assigned_members) = 1
          /\ Len(OccupantsAt(schedule_grid, Cell(pre_filled_grid[i]))) = 2
          /\ \E k \in 1..Len(top_schedules) :
                top_schedules[k].state[Cell(pre_filled_grid[i])]
                    # OccupantsAt(schedule_grid, Cell(pre_filled_grid[i]))

\* ------------------------------------------------------------------------
\* restore_state: what it leaves alone
\* ------------------------------------------------------------------------

\* restore_state(state) has returned.
Restored == pc \in {"round_trip", "restored", "restored_twice"}

\* C28: restore_state(state) changes no shift's locked flag, day or time_idx,
\* nor the order or number of the shifts; every shift, locked or not, ends
\* with the names stored for its cell that are in the roster, in their stored
\* order, and with no occupants when state has no key for its cell.
C28_RestoreFrame ==
    Restored =>
        /\ Len(schedule_grid) = Len(before[1].grid)
        /\ \A i \in 1..Len(schedule_grid) :
              LET now == schedule_grid[i]
                  was == before[1].grid[i]
                  c == <<was.day, was.time_idx>>
              IN  /\ now.day = was.day
                  /\ now.time_idx = was.time_idx
                  /\ now.locked = was.locked
                  /\ c \in DOMAIN state_dict[1] =>
                        now.assigned_members =
                            SelectSeq(state_dict[1][c], LAMBDA n : n \in RosterNames)
                  /\ c \notin DOMAIN state_dict[1] => now.assigned_members = <<>>

\* restore_state returned on a grid with a locked shift that held people and
\* has no key in state, and with a locked shift whose occupants it replaced.
C28_Witness ==
    /\ pc = "restored"
    /\ \E i \in 1..Len(schedule_grid) :
          /\ before[1].grid[i].locked
          /\ before[1].grid[i].assigned_members # <<>>
          /\ Cell(schedule_grid[i]) \notin DOMAIN state_dict[1]
    /\ \E i \in 1..Len(schedule_grid) :
          /\ before[1].grid[i].locked
          /\ schedule_grid[i].assigned_members # <<>>
          /\ schedule_grid[i].assigned_members # before[1].grid[i].assigned_members

\* ------------------------------------------------------------------------
\* No shift is skipped
\* ------------------------------------------------------------------------

\* The cells of the shifts that solve() has to fill or complete.
ProcessableCells == {c \in CellsOf(pre_filled_grid) : ~FullyLockedCell(c)}

\* The snapshots the search examined, the best partial, and the grid solve()
\* falls back on when it returns 0.
ExaminedStates ==
    Range(visited) \cup {best_grid_state}
        \cup (IF Returned /\ result = 0 THEN {CaptureState(schedule_grid)} ELSE {})

\* C26: in every state the search examined and in the grid solve() leaves
\* when it returns 0, a shift the search put somebody in has only shifts with
\* exactly 2 occupants before it in the ordered grid; and when a shift to fill
\* has no valid pair or partner in the lock-restored state (it is then the
\* first in difficulty order), solve() returns 0 and every shift that was not
\* fully locked holds exactly its lock-restored occupants.
C26_NoShiftSkipped ==
    /\ Searching =>
          \A st \in ExaminedStates : \A k \in 1..Len(schedule_grid) :
              (/\ Cell(schedule_grid[k]) \in DOMAIN st
               /\ PlacedSeats(st, Cell(schedule_grid[k])) # {}) =>
                  \A j \in 1..(k - 1) : Len(st[Cell(schedule_grid[j])]) = 2
    /\ (Returned /\ \E c \in ProcessableCells : InitialDifficulty(c) = 0) =>
          /\ result = 0
          /\ \A c \in ProcessableCells : OccupantsAt(schedule_grid, c) = LockRestoredAt(c)

\* solve() returned from a grid with a shift that had no candidate and a
\* shift that had some, the latter first in the grid handed in.
C26_Witness ==
    /\ Returned
    /\ attempts >= 1
    /\ \E c, d \in ProcessableCells :
          /\ InitialDifficulty(c) = 0
          /\ InitialDifficulty(d) > 0
          /\ OriginalIndex(d) < OriginalIndex(c)

\* ------------------------------------------------------------------------
\* The returned count and the fill of the grid
\* ------------------------------------------------------------------------

\* Every shift of the grid has exactly 2 occupants.
EveryShiftFull == \A i \in 1..Len(schedule_grid) : Len(schedule_grid[i].assigned_members) = 2

\* C27 as stated: after solve() returns, every shift of the grid has exactly
\* 2 occupants if and only if the returned count is >= 1.
C27_AsStated == Returned => (EveryShiftFull <=> result >= 1)

\* C27 amended: after solve() returns a count >= 1 every shift of the grid has
\* exactly 2 occupants; after it returns 0, some shift has fewer than 2
\* occupants or some must_schedule name occupies no shift of the grid.
C27_CountAndFill ==
    Returned =>
        /\ result >= 1 => EveryShiftFull
        /\ result = 0 =>
              \/ \E i \in 1..Len(schedule_grid) : Len(schedule_grid[i].assigned_members) < 2
              \/ \E k \in 1..Len(must_schedule) :
                    must_schedule[k] \notin AssignedNames(schedule_grid)

\* solve() returned 0 and left a grid with every shift full, the search having
\* placed people in it.
C27_Witness ==
    /\ Returned
    /\ result = 0
    /\ EveryShiftFull
    /\ \E i \in 1..Len(schedule_grid) :
          PlacedSeats(CaptureState(schedule_grid), Cell(schedule_grid[i])) # {}

\* ------------------------------------------------------------------------
\* The application: the handlers of app.py that change the grid
\* ------------------------------------------------------------------------

\* is_match of perform_overwrite_assign: the occupant is the new member, or
\* has a name that ends with a space and the new member's name.
IsMatch(curr_name, new_name) == curr_name = new_name \/ EndsWith(curr_name, " " \o new_name)

\* list.remove(cell), k times, each time only if the list holds the cell
RECURSIVE RemoveTimes(_, _, _)
RemoveTimes(seq, cell, k) == IF k = 0 THEN seq ELSE RemoveTimes(RemoveFirst(seq, cell), cell, k - 1)

\* The first loop of perform_overwrite_assign for one new member, the
\* bookkeeping: for every occupant of a shift that matches, the cell of the
\* shift leaves the list of the new member.
RECURSIVE UnassignMatches(_, _, _)
UnassignMatches(grid, list, new_name) ==
    IF grid = <<>> THEN list
    ELSE UnassignMatches(Tail(grid),
             RemoveTimes(list, Cell(Head(grid)),
                         Cardinality({k \in 1..Len(Head(grid).assigned_members) :
                                         IsMatch(Head(grid).assigned_members[k], new_name)})),
             new_name)

\* The first loop of perform_overwrite_assign: every occupant that matches a
\* new member leaves its shift.
RECURSIVE RemoveMatches(_, _)
RemoveMatches(snap, new_members) ==
    IF new_members = <<>> THEN snap
    ELSE LET p_new == Head(new_members)
         IN  RemoveMatches(
                 [grid |-> [i \in 1..Len(snap.grid) |->
                               [snap.grid[i] EXCEPT !.assigned_members =
                                   SelectSeq(@, LAMBDA n : ~IsMatch(n, p_new))]],
                  assigned |-> [snap.assigned EXCEPT ![p_new] =
                                   UnassignMatches(snap.grid, @, p_new)]],
                 Tail(new_members))

\* perform_overwrite_assign(target_shift, new_members), target_shift being the
\* shift at position t of the grid.
PerformOverwriteAssign(snap, t, new_members) ==
    LET s1 == RemoveMatches(snap, new_members)
        cell == Cell(snap.grid[t])
        old == SelectSeq(s1.grid[t].assigned_members, LAMBDA n : n \notin Range(new_members))
    IN  [grid |-> [s1.grid EXCEPT ![t].assigned_members = new_members],
         assigned |-> AppendCell(OverwriteAssigned(s1.assigned, old, cell), new_members, cell)]

\* target_shift.locked = True
LockedAt(grid, t) == [grid EXCEPT ![t].locked = TRUE]

\* Rosters with a name that ends with a space and another member's name, and
\* with a name that holds a parenthesis.
SuffixRoster == <<Plain("A", "Male"), Plain("J A", "Female"), Plain("C", "Male"), Plain("D", "Female")>>

ParenRoster == <<Plain("A", "Male"), Plain("B", "Female"), Plain("C", "Male"), Plain("D (x)", "Female")>>

SessionRosters == {PlainRoster, SuffixRoster, ParenRoster, DayRoster}

\* The occupant lists of a shift of the session grid, and the selections of
\* the slot editor: at most two different people of the first four of the
\* roster.
NameLists(roster) ==
    LET names == {roster[i].name : i \in 1..4}
    IN  {<<>>} \cup {<<n>> : n \in names}
               \cup {pr \in names \X names : pr[1] # pr[2]}

\* The grids of the session: two shifts of Monday, as load_configuration or
\* an earlier handler left them; the second shift is empty or holds the
\* second, the second and first, or the fourth and third person of the roster,
\* and the first shift of the large roster is empty.
SessionGrids(roster) ==
    {<<Shift(<<"Monday", 1>>, FALSE, a), Shift(<<"Monday", 2>>, FALSE, b)>> :
        a \in IF roster = DayRoster THEN {<<>>} ELSE NameLists(roster),
        b \in {<<>>, <<roster[2].name>>, <<roster[2].name, roster[1].name>>,
               <<roster[4].name, roster[3].name>>}}

InitApp ==
    /\ members \in SessionRosters
    /\ forbidden_pairs = <<>>
    /\ must_schedule = <<>>
    /\ never_schedule = <<>>
    /\ attempt_limit = ATTEMPT_BUDGET
    /\ schedule_grid \in SessionGrids(members)
    /\ pre_filled_grid = schedule_grid
    /\ assigned_shifts = LoadedAssigned(schedule_grid, NoAssignments)
    /\ attempts = 0
    /\ best_grid_state = <<>>
    /\ max_filled_count = -1
    /\ top_schedules = <<>>
    /\ pc = "session"
    /\ shift_index = 0
    /\ stack = <<>>
    /\ result = NoResult
    /\ visited = <<>>
    /\ previous_state = <<>>
    /\ state_dict = <<>>
    /\ before = <<>>
    /\ once = <<>>
    /\ call = NoCall
    /\ ret = <<>>

search_vars == <<attempts, best_grid_state, max_filled_count, top_schedules, shift_index,
                 stack, result, visited>>

\* "Lock (No Reroll)": the selected people are written into the shift and the
\* shift is locked.
LockNoReroll ==
    /\ pc = "session"
    /\ \E t \in 1..Len(schedule_grid), new_members \in NameLists(members) :
          LET after == PerformOverwriteAssign(Snapshot, t, new_members)
          IN  /\ call' = [op |-> "lock", target |-> t, new_members |-> new_members]
              /\ before' = <<Snapshot>>
              /\ schedule_grid' = LockedAt(after.grid, t)
              /\ assigned_shifts' = after.assigned
    /\ pc' = "locked"
    /\ UNCHANGED <<inputs, search_vars, previous_state, state_dict, once, ret>>

\* "Lock & Reroll", up to its Scheduler call: last_stable_state is captured,
\* the selected people are written into the shift, the shift is locked, and
\* the Scheduler is about to be constructed on the grid with
\* previous_state = last_stable_state.
LockAndReroll ==
    /\ pc = "session"
    /\ \E t \in 1..Len(schedule_grid), new_members \in NameLists(members) :
          LET after == PerformOverwriteAssign(Snapshot, t, new_members)
          IN  /\ call' = [op |-> "lock_and_reroll", target |-> t, new_members |-> new_members]
              /\ before' = <<Snapshot>>
              /\ previous_state' = <<CaptureState(schedule_grid)>>
              /\ schedule_grid' = LockedAt(after.grid, t)
              /\ pre_filled_grid' = LockedAt(after.grid, t)
              /\ assigned_shifts' = after.assigned
    /\ pc' = "construct"
    /\ UNCHANGED <<members, forbidden_pairs, must_schedule, never_schedule, attempt_limit,
                   search_vars, state_dict, once, ret>>

\* "Auto-Generate Schedule", up to its Scheduler call: no grid and no
\* previous_state are handed over, __init__ builds the grid of the active days.
AutoGenerate ==
    /\ pc = "session"
    /\ call' = [op |-> "auto_generate"]
    /\ previous_state' = <<>>
    /\ schedule_grid' = InitializeGrid(<<"Monday">>)
    /\ pre_filled_grid' = InitializeGrid(<<"Monday">>)
    /\ pc' = "construct"
    /\ UNCHANGED <<members, forbidden_pairs, must_schedule, never_schedule, attempt_limit,
                   assigned_shifts, search_vars, state_dict, before, once, ret>>

\* The end of a handler that ran solve(): the solver's grid and alternatives,
\* and for Auto-Generate the captured state, go to the session state.
StoreSession ==
    /\ pc = "done"
    /\ call.op \in {"auto_generate", "lock_and_reroll"}
    /\ ret' = <<[schedule_grid |-> schedule_grid,
                 top_schedules |-> top_schedules,
                 last_stable_state |-> IF call.op = "auto_generate"
                                       THEN CaptureState(schedule_grid) ELSE previous_state[1]]>>
    /\ pc' = "stored"
    /\ UNCHANGED <<inputs, search_vars, schedule_grid, assigned_shifts, previous_state,
                   state_dict, before, once, call>>

NextApp ==
    \/ LockNoReroll
    \/ LockAndReroll
    \/ AutoGenerate
    \/ Construct
    \/ Next
    \/ StoreSession

AppSpec == InitApp /\ [][NextApp]_vars

\* perform_overwrite_assign has returned, in either handler that calls it
\* with the selected people.
Overwritten == pc = "locked" \/ (pc = "construct" /\ call.op = "lock_and_reroll")

\* Each person's assigned_shifts holds the cells of the shifts that list the
\* person, and nothing else.
Matches(snap) ==
    \A n \in DOMAIN snap.assigned :
        /\ \A i \in 1..Len(snap.grid) :
              Occurrences(snap.assigned[n], Cell(snap.grid[i]))
                  = Occurrences(snap.grid[i].assigned_members, n)
        /\ Range(snap.assigned[n]) \subseteq CellsOf(snap.grid)

\* C29: for any roster names, when each person's assigned_shifts matched the
\* shifts listing the person before perform_overwrite_assign(target_shift,
\* new_members), afterwards each new member occupies the target shift and no
\* other shift, nobody but the new members and the target's former occupants
\* has lost an assignment, and each person's assigned_shifts still matches the
\* shifts listing the person.
C29_OverwriteConsistent ==
    (Overwritten /\ Matches(before[1])) =>
        /\ \A n \in Range(call.new_members) : \A i \in 1..Len(schedule_grid) :
              n \in Range(schedule_grid[i].assigned_members) <=> i = call.target
        /\ \A n \in RosterNames \ (Range(call.new_members)
                                      \cup Range(before[1].grid[call.target].assigned_members)) :
              \A i \in 1..Len(schedule_grid) :
                  /\ Occurrences(schedule_grid[i].assigned_members, n)
                        = Occurrences(before[1].grid[i].assigned_members, n)
                  /\ assigned_shifts[n] = before[1].assigned[n]
        /\ Matches(Snapshot)

\* C25: a "Lock & Reroll" writes the chosen people into the selected shift,
\* locks it, constructs the Scheduler over the grid with the state captured
\* before as reference, runs solve() without an error, and stores the
\* solver's grid and alternatives in the session state.
C25_IncrementalResolve ==
    call.op = "lock_and_reroll" =>
        /\ pc = "construct" =>
              /\ schedule_grid[call.target].assigned_members = call.new_members
              /\ schedule_grid[call.target].locked
              /\ previous_state = <<CaptureState(before[1].grid)>>
        /\ pc # "type_error"
        /\ pc = "stored" =>
              /\ ret[1].schedule_grid = schedule_grid
              /\ ret[1].top_schedules = top_schedules

=============================================================================
